---- MODULE Spec2Model ----
(***************************************************************************)
(* Squad Combat Initiative: the group aggregation and reactive             *)
(* coordination engine (GroupManager, the updateCombatant hook and the     *)
(* bulk-roll wrapper).                                                     *)
(*                                                                         *)
(* Numbers.  Initiatives are JavaScript numbers with at most a few decimal *)
(* places.  They are modelled exactly, as integers counting 1/Scale: the   *)
(* number 14.03 is the integer 14.03 * Scale.  Floating-point rounding     *)
(* noise is not modelled for them.  A nullable number is a sequence:       *)
(* << >> is null, <<v>> is the number v.                                   *)
(*                                                                         *)
(* The morale auto-prompt (MoraleManager) is modelled beside the engine;   *)
(* its threshold is computed in binary64 as the code computes it.          *)
(***************************************************************************)
EXTENDS Integers, Sequences, FiniteSets, Bags, TLC

(* ------------------------------ bounds -------------------------------- *)
NumMembers == 4
NumGroups == 3
MaxInit == 1
MaxTasks == 2
MaxOps == 2
MaxCrowd == 9

(* ------------------------- program constants -------------------------- *)
Scale == 12 * 100
UNGROUPED == 0
STAGGER_INCREMENT == Scale \div 100
SORT_BASE_OFFSET == -1000
SORT_INCREMENT == 100
GROUP_RANK_OFFSET == Scale \div 10

Members == 1 .. NumMembers
GroupIds == 1 .. NumGroups
Null == << >>
RawInits == {i * Scale : i \in (-1) .. MaxInit}


VARIABLES
  initiative,      \* combatant.initiative, nullable
  sort,            \* combatant.sort
  groupId,         \* combatant flag groupId (UNGROUPED when unset)
  actor,           \* combatant.actor abilities.dex: value and mod
  groups,          \* combat flag groups: per id, exists and initiative
  skipFinalize,    \* combat flag skipFinalize.<groupId>
  mutex,           \* GroupManager._mutex
  bulkRollInProgress,         \* GroupManager._bulkRollInProgress
  groupInitiativeProcessed,   \* combat._groupInitiativeProcessed
  tasks,           \* the asynchronous calls in flight: a bag of records
  finalized,       \* history: the last ordering step of the group covered
                   \* all its members and none was written since
  maxTasks,        \* how many calls may be in flight at once
  userIsGM,        \* game.user.isGM of the client the program runs on
  collection,      \* combat.combatants: the combatants in collection order
  manual,          \* history: per group, what the last Set Group Initiative
                   \* wrote, until the group is edited, rolled or reset
  opsLeft,         \* how many more operations may be started from outside
  morale,          \* the morale subsystem: the settings moraleEnabled and
                   \* moraleAutoPromptThreshold, _promptedGroups, the
                   \* startingSize and deletedCount of each group, the
                   \* mob-confidence divisor (setting and group override),
                   \* the combatants (group, actor hit points, whether the
                   \* combatant has a token and whether its actor carries
                   \* the failure effect), the rollMorale call in flight,
                   \* and a history: how each group was last marked, how
                   \* many auto-prompts were sent for it since it was last
                   \* taken out of _promptedGroups, and the groups that a
                   \* start of combat found recorded with a size other
                   \* than their member count
  ev               \* history: what the last step did

dataVars == <<initiative, sort, groupId, actor, groups>>
guardVars == <<skipFinalize, mutex, bulkRollInProgress, groupInitiativeProcessed>>
vars == <<initiative, sort, groupId, actor, groups, skipFinalize,
          mutex, bulkRollInProgress, groupInitiativeProcessed,
          tasks, finalized, maxTasks, userIsGM, collection, manual, opsLeft, morale, ev>>
envVars == <<maxTasks, userIsGM, collection, morale>>
fixedVars == <<envVars, manual>>
boundVars == <<fixedVars, opsLeft>>

(* ---------------------------- numeric utilities ----------------------- *)
RECURSIVE SumSeq(_)
SumSeq(s) == IF s = << >> THEN 0 ELSE Head(s) + SumSeq(Tail(s))

\* Math.ceil in place of Math.round.
MathRound_ceil(p, q) == -((-p) \div q)

\* Math.round(p / q) for q > 0: the nearest integer, a half going up.
MathRound(p, q) == (2 * p + q) \div (2 * q)

\* The nearest integer to p / q (q > 0) with a half going away from zero.
RoundHalfAwayFromZero(p, q) ==
  IF p >= 0 THEN (2 * p + q) \div (2 * q) ELSE -((2 * (-p) + q) \div (2 * q))

\* Math.floor in place of Math.round.
calculateAverageInitiative_floor(initiatives) ==
  IF Len(initiatives) = 0 THEN Null
  ELSE <<(SumSeq(initiatives) \div (Len(initiatives) * Scale)) * Scale>>

\* calculateAverageInitiative: null for an empty list, else the rounded mean.
calculateAverageInitiative(initiatives) ==
  IF Len(initiatives) = 0 THEN Null
  ELSE <<MathRound(SumSeq(initiatives), Len(initiatives) * Scale) * Scale>>

\* +(x).toFixed(2): x rounded to a multiple of 0.01, a half away from zero.
ToFixed2(x) == RoundHalfAwayFromZero(x, Scale \div 100) * (Scale \div 100)

IsFinite(x) == x # Null

(* ------------------------------ group index --------------------------- *)
\* combat.combatants in collection order.
Combatants == collection

RECURSIVE FilterSeq(_, _)
FilterSeq(s, S) ==
  IF s = << >> THEN << >>
  ELSE IF Head(s) \in S THEN <<Head(s)>> \o FilterSeq(Tail(s), S)
       ELSE FilterSeq(Tail(s), S)

\* combat.combatants.filter(c => c.getFlag("groupId") === g), as a set and
\* in collection order.
MembersOf(gid, g) == {m \in Members : gid[m] = g}
MemberList(gid, g) == FilterSeq(Combatants, MembersOf(gid, g))

(* ------------------------- _applyGroupOrder --------------------------- *)
\* The comparator with the dexterity tie-break reversed.
Before_dexAscending(a, b) == a.init > b.init \/ (a.init = b.init /\ a.dex < b.dex)

\* The comparator of list.sort: b.init - a.init || b.dex - a.dex.
Before(a, b) == a.init > b.init \/ (a.init = b.init /\ a.dex > b.dex)

RECURSIVE InsertSorted(_, _)
InsertSorted(x, s) ==
  IF s = << >> THEN <<x>>
  ELSE IF Before(x, Head(s)) THEN <<x>> \o s
       ELSE <<Head(s)>> \o InsertSorted(x, Tail(s))

\* Array.prototype.sort is stable: equal elements keep their list order.
RECURSIVE SortList(_)
SortList(list) ==
  IF list = << >> THEN << >>
  ELSE InsertSorted(list[Len(list)], SortList(SubSeq(list, 1, Len(list) - 1)))

MinOf(S) == CHOOSE x \in S : \A y \in S : x <= y

\* The entry of the groups flag that createGroup stores for group g: its
\* name (with image, colour, pinned and hidden) and no initiative.
NewGroup(g) == [exists |-> TRUE, initiative |-> Null, name |-> <<g>>]
\* No entry for the group.
NoGroup == [exists |-> FALSE, initiative |-> Null, name |-> Null]

\* The write of the aggregate puts a fresh entry in place of the stored one.
setGroupInitiative_replace(grp, g, v) ==
  [grp EXCEPT ![g] = [exists |-> TRUE, initiative |-> v, name |-> Null]]

\* setFlag(MODULE_ID, `groups.${g}.initiative`, v): the value is merged into
\* the entry of g, which is created when the flag holds none.
setGroupInitiative(grp, g, v) ==
  [grp EXCEPT ![g].exists = TRUE, ![g].initiative = v]

\* The entry of one stored group in groupsWithInit, or "none" when filtered.
RankEntry(gid, ini, grp, h, g, avgInit) ==
  LET init == IF grp[h].initiative # Null THEN grp[h].initiative
              ELSE IF h = g THEN avgInit ELSE Null
      ms == MemberList(gid, h)
  IN [id |-> h,
      has |-> init # Null,
      initiative |-> IF init # Null THEN init[1] ELSE 0,
      totalInit |-> SumSeq([i \in 1 .. Len(ms) |->
                      IF ini[ms[i]] = Null THEN 0 ELSE ini[ms[i]][1]]),
      dexSum |-> SumSeq([i \in 1 .. Len(ms) |-> actor[ms[i]].mod]),
      n |-> IF Len(ms) > 0 THEN Len(ms) ELSE 1]

\* The comparator of groupsWithInit.sort; avgDex = dexSum / n is compared
\* by cross-multiplication.
RankBefore(a, b) ==
  \/ a.initiative > b.initiative
  \/ a.initiative = b.initiative /\ a.totalInit > b.totalInit
  \/ a.initiative = b.initiative /\ a.totalInit = b.totalInit
       /\ a.dexSum * b.n > b.dexSum * a.n
  \/ a.initiative = b.initiative /\ a.totalInit = b.totalInit
       /\ a.dexSum * b.n = b.dexSum * a.n /\ a.id < b.id

\* groupsWithInit.findIndex(x => x.id === g); -1 when g has no entry.
GroupRank(gid, ini, grp, g, avgInit) ==
  LET stored == {h \in GroupIds : grp[h].exists}
      entry(h) == RankEntry(gid, ini, grp, h, g, avgInit)
      withInit == {h \in stored : entry(h).has}
  IN IF g \in withInit
     THEN Cardinality({h \in withInit : RankBefore(entry(h), entry(g))})
     ELSE -1

\* A rank step as wide as a whole point of initiative.
GroupOffset_wholePoint(rank) == IF rank > 0 THEN rank * Scale ELSE 0

\* groupRank > 0 ? groupRank * GROUP_RANK_OFFSET : 0.
GroupOffset(rank) == IF rank > 0 THEN rank * GROUP_RANK_OFFSET ELSE 0

\* The synchronous part of _applyGroupOrder: the sorted list, the average
\* and the member updates it is about to write.
ApplyGroupOrderPlan(gid, ini, srt, grp, g, list) ==
  LET sorted == SortList(list)
      n == Len(sorted)
      baseSort == MinOf({srt[m] : m \in Members}) + SORT_BASE_OFFSET
      avgInit == calculateAverageInitiative([i \in 1 .. n |-> sorted[i].init])
      groupRank == GroupRank(gid, ini, grp, g, avgInit)
      groupOffset == GroupOffset(groupRank)
  IN [avgInit |-> avgInit,
      rank |-> groupRank,
      order |-> [i \in 1 .. n |-> sorted[i].id],
      updates |-> [i \in 1 .. n |->
         [id |-> sorted[i].id,
          sort |-> baseSort + (i - 1) * SORT_INCREMENT,
          initiative |-> ToFixed2(avgInit[1] + groupOffset
                                   + (n - (i - 1)) * STAGGER_INCREMENT)]]]


(* ------------------------------ tasks --------------------------------- *)
\* One asynchronous call: kind is its entry point, pc the await it is
\* suspended at; g .. gW are the frame of the ordering step it is running.
IdleTask ==
  [kind |-> "idle", pc |-> "idle", g |-> UNGROUPED, via |-> "none",
   bypass |-> FALSE, clearSkip |-> FALSE,
   list |-> << >>, avgInit |-> Null, rank |-> 0, updates |-> << >>,
   mW |-> "none", gW |-> "none",
   toRoll |-> << >>, rolled |-> << >>,
   remaining |-> << >>, index |-> << >>,
   counts |-> [h \in 0 .. NumGroups |-> 0],
   prevFinalized |-> FALSE, prevAgg |-> Null, arg |-> Null,
   failed |-> FALSE, result |-> "resolved"]

\* The calls in flight.  Two calls can be at the same await with equal
\* frames, so they form a bag.
Busy == BagToSet(tasks)
\* The calls tk and one more, call c.
With(tk, c) == tk (+) SetToBag({c})
\* The calls in flight without call c, and with c having become c2.
Without(c) == tasks (-) SetToBag({c})
Replace(c, c2) == With(Without(c), c2)
\* Another call fits among the calls tk.
Room(tk) == BagCardinality(tk) < maxTasks
\* An operation may be started from outside: fewer than maxTasks calls are
\* in flight and the budget of operations is not spent.
MayStart == Room(tasks) /\ opsLeft > 0

NoEv == [kind |-> "none", g |-> UNGROUPED, via |-> "none",
         frame |-> IdleTask, hooks |-> << >>]
\* The steps the history tells apart: the outcomes of a direct finalize
\* call, a group roll that finds nothing to roll, the write of an aggregate
\* and the ends of the three operations, an operation denied to a client
\* that is not a GM's and a change made from another client.
CallKinds == {"finalizeStart", "finalizeNoop", "finalizeDropped", "rollNothing",
              "deleteCancelled", "denied", "remote"}
EndKinds == {"finalizeDone", "rollDone", "bulkDone", "commitGroup",
             "rebaseMembers", "rebaseGroup", "resetDone", "deleteDone"}
\* What a step did: its kind, the group it was about and the path it came
\* by (for the kinds above), the frame it ended (for the end kinds) and
\* what the updateCombatant handler decided for each notification the step
\* raised.
Event(kind, g, via, frame, hooks) ==
  IF kind \in CallKinds \cup EndKinds
  THEN [kind |-> kind, g |-> g, via |-> via,
        frame |-> IF kind \in EndKinds THEN frame ELSE IdleTask,
        hooks |-> hooks]
  ELSE [NoEv EXCEPT !.kind = "step", !.hooks = hooks]

\* An edit, roll or reset of the groups S ends the standing of their
\* manual values.
Forget(S) == [h \in GroupIds |-> IF h \in S THEN Null ELSE manual[h]]

\* The groups one step's writes touch stop counting as finalized.
Touch(S) == [h \in GroupIds |-> IF h \in S THEN FALSE ELSE finalized[h]]

(* ---------------------- finalizeGroupInitiative ----------------------- *)
\* finalizeGroupInitiative without the Number.isFinite precondition.
FinalizeOutcome_noFiniteCheck(ini, mx, g, bypass) ==
  IF ~bypass /\ mx THEN "dropped"
  ELSE IF MembersOf(groupId, g) = {} THEN "noop"
  ELSE "run"

\* The synchronous head of finalizeGroupInitiative over the initiatives ini
\* and the mutex mx: "dropped" at the mutex, "noop" when the preconditions
\* fail, else "run".
FinalizeOutcome(ini, mx, g, bypass) ==
  IF ~bypass /\ mx THEN "dropped"
  ELSE IF MembersOf(groupId, g) = {} THEN "noop"
  ELSE IF \E m \in MembersOf(groupId, g) : ~IsFinite(ini[m]) THEN "noop"
  ELSE "run"

\* shaped: members.map(c => ({combatant, init: c.initiative, dex: dex.value})).
Shaped(ini, g) ==
  LET ms == MemberList(groupId, g)
  IN [i \in 1 .. Len(ms) |->
        [id |-> ms[i],
         init |-> IF ini[ms[i]] = Null THEN 0 ELSE ini[ms[i]][1],
         dex |-> actor[ms[i]].value]]

\* The task once _applyGroupOrder has computed its plan over the documents
\* (ini, srt) and issued the member batch write and the aggregate write.
Frame(base, ini, srt, fin, g, via, bypass, clearSkip, list) ==
  LET plan == ApplyGroupOrderPlan(groupId, ini, srt, groups, g, list)
  IN [base EXCEPT !.pc = "persist", !.g = g, !.via = via, !.bypass = bypass,
                  !.clearSkip = clearSkip,
                  !.list = SortList(list), !.avgInit = plan.avgInit,
                  !.rank = plan.rank, !.updates = plan.updates,
                  !.mW = "pending", !.gW = "pending",
                  !.prevFinalized = IF g \in GroupIds THEN fin[g] ELSE FALSE,
                  !.prevAgg = IF g \in GroupIds THEN groups[g].initiative ELSE Null]

\* A call that runs leaves the mutex as it found it.
TakeMutex_never(mx, o) == mx

\* if (!bypassMutex) this._mutex = true: the mutex once a call without
\* bypassMutex has been made with outcome o; a call that returns at its
\* preconditions releases it in the same turn.
TakeMutex(mx, o) == mx \/ o = "run"

\* A direct call of the public finalizeGroupInitiative(combat, g).
ApiFinalize(g) ==
  /\ MayStart
  /\ LET o == FinalizeOutcome(initiative, mutex, g, FALSE) IN
     /\ tasks' = IF o = "run"
                 THEN With(tasks,
                         Frame([IdleTask EXCEPT !.kind = "finalize"],
                               initiative, sort, finalized,
                               g, "api", FALSE, FALSE, Shaped(initiative, g)))
                 ELSE tasks
     /\ mutex' = TakeMutex(mutex, o)
     /\ ev' = Event(IF o = "run" THEN "finalizeStart"
                    ELSE IF o = "noop" THEN "finalizeNoop" ELSE "finalizeDropped",
                    g, "api", IdleTask, << >>)
  /\ UNCHANGED <<dataVars, skipFinalize, bulkRollInProgress,
                 groupInitiativeProcessed, finalized, fixedVars>>
  /\ opsLeft' = opsLeft - 1

(* ------------------------ updateCombatant hook ------------------------ *)
\* The handler without its check of the skipFinalize flag.
HookDecision_noSkipCheck(n, mx) ==
  IF ~n.hasInit THEN "noInitiative"
  ELSE IF mx THEN "mutex"
  ELSE IF bulkRollInProgress THEN "bulk"
  ELSE IF groupId[n.m] = UNGROUPED THEN "ungrouped"
  ELSE "finalize"

\* The handler without its check of the group of the combatant.
HookDecision_anyGroup(n, mx) ==
  IF ~n.hasInit THEN "noInitiative"
  ELSE IF mx THEN "mutex"
  ELSE IF bulkRollInProgress THEN "bulk"
  ELSE IF groupId[n.m] # UNGROUPED /\ skipFinalize[groupId[n.m]] THEN "skip"
  ELSE "finalize"

\* Why the handler returns early for notification n while the mutex is mx,
\* or "finalize" when it calls through.  skipFinalizeSet is never added to,
\* and a combatant always has its combat as parent.
HookDecision(n, mx) ==
  IF ~n.hasInit THEN "noInitiative"
  ELSE IF mx THEN "mutex"
  ELSE IF bulkRollInProgress THEN "bulk"
  ELSE IF groupId[n.m] = UNGROUPED THEN "ungrouped"
  ELSE IF skipFinalize[groupId[n.m]] THEN "skip"
  ELSE "finalize"

RECURSIVE DeliverHooks(_, _, _)
\* Hooks.on("updateCombatant") for the notifications ns of one write, in
\* order.  The handlers run synchronously with the write, each up to its
\* first await: a call of finalizeGroupInitiative that runs takes the mutex
\* and suspends inside _applyGroupOrder, so that the later handlers of the
\* same write return at the mutex.  acc is the mutex so far, the group a
\* finalize was started for (if any) and the decision for each notification.
DeliverHooks(ns, ini, acc) ==
  IF ns = << >> THEN acc
  ELSE LET n == Head(ns)
           d == HookDecision(n, acc.mutex)
           g == groupId[n.m]
           o == IF d = "finalize" THEN FinalizeOutcome(ini, acc.mutex, g, FALSE)
                ELSE "dropped"
       IN DeliverHooks(Tail(ns), ini,
            [mutex |-> TakeMutex(acc.mutex, o),
             run |-> IF o = "run" THEN <<g>> ELSE acc.run,
             log |-> Append(acc.log,
                       [m |-> n.m, g |-> g, hasInit |-> n.hasInit,
                        decision |-> d, outcome |-> o])])

Hooks(ns, ini) ==
  DeliverHooks(ns, ini, [mutex |-> mutex, run |-> << >>, log |-> << >>])

\* A write of member documents takes effect: the documents become
\* (ini, srt), the notifications ns are delivered and a finalize that a
\* handler started joins tk, the calls in flight after the writer's own
\* move.
WriteAndNotify(ini, srt, ns, tk, fin) ==
  LET H == Hooks(ns, ini) IN
  /\ initiative' = ini
  /\ sort' = srt
  /\ finalized' = fin
  /\ mutex' = H.mutex
  /\ H.run # << >> => Room(tk)
  /\ tasks' = IF H.run = << >> THEN tk
              ELSE With(tk,
                      Frame([IdleTask EXCEPT !.kind = "finalize"],
                            ini, srt, fin, H.run[1], "hook", FALSE, FALSE,
                            Shaped(ini, H.run[1])))

\* An external write of one member's initiative (inline edit, a single
\* roll by the host): the document changes and the handler runs.
SetInitiative(m, v) ==
  /\ MayStart
  /\ v # initiative[m]
  /\ LET ini == [initiative EXCEPT ![m] = v]
         ns == <<[m |-> m, hasInit |-> TRUE]>>
     IN /\ WriteAndNotify(ini, sort, ns, tasks, Touch({groupId[m]}))
        /\ ev' = Event("setInitiative", groupId[m], "host", IdleTask,
                       Hooks(ns, ini).log)
  /\ UNCHANGED <<groupId, actor, groups, skipFinalize, bulkRollInProgress,
                 groupInitiativeProcessed, envVars>>
  /\ manual' = Forget({groupId[m]})
  /\ opsLeft' = opsLeft - 1

(* --------------------- _applyGroupOrder: persistence ------------------ *)
RECURSIVE ApplyUpdates(_, _, _)
\* field "initiative" or "sort" of every document after the batch write.
ApplyUpdates(f, ups, field) ==
  IF ups = << >> THEN f
  ELSE ApplyUpdates(
         [f EXCEPT ![Head(ups).id] =
            IF field = "sort" THEN Head(ups).sort ELSE <<Head(ups).initiative>>],
         Tail(ups), field)

\* The notifications a batch write raises: one per changed document, with
\* "initiative" among its changes only when the value differs.
Notifications(ups) ==
  LET changed == SelectSeq(ups, LAMBDA u :
                   initiative[u.id] # <<u.initiative>> \/ sort[u.id] # u.sort)
  IN [i \in 1 .. Len(changed) |->
        [m |-> changed[i].id,
         hasInit |-> initiative[changed[i].id] # <<changed[i].initiative>>]]

\* Once Promise.all of the two writes has resolved the frame awaits the
\* removal of the skip flag (when asked to clear it), else the chat summary.
\* When one of them was rejected the catch block of _applyGroupOrder runs
\* instead: it removes the skip flag (when asked to clear it) and throws.
\* The frame goes on to the summary as soon as one of the two requests has
\* succeeded.
AfterPersist_either(f) ==
  IF f.mW = "ok" \/ f.gW = "ok"
  THEN [f EXCEPT !.pc = IF f.clearSkip THEN "clearSkip" ELSE "summary"]
  ELSE f

\* Both requests are on their way when Promise.all rejects, so the frame
\* goes on once each has been answered.
AfterPersist(f) ==
  IF f.mW = "ok" /\ f.gW = "ok"
  THEN [f EXCEPT !.pc = IF f.clearSkip THEN "clearSkip" ELSE "summary"]
  ELSE IF f.mW # "pending" /\ f.gW # "pending"
  THEN [f EXCEPT !.pc = IF f.clearSkip THEN "cleanupSkip" ELSE "caught",
                 !.failed = TRUE]
  ELSE f

\* combat.updateEmbeddedDocuments("Combatant", updates) takes effect and
\* the handler runs for every changed document.
CommitMemberWrite(f) ==
  /\ f.pc = "persist" /\ f.mW = "pending"
  /\ LET ups == f.updates
         ini == ApplyUpdates(initiative, ups, "initiative")
         srt == ApplyUpdates(sort, ups, "sort")
         ns == Notifications(ups)
         tk == Replace(f, AfterPersist([f EXCEPT !.mW = "ok"]))
     IN /\ WriteAndNotify(ini, srt, ns, tk,
                          Touch({groupId[ups[i].id] : i \in 1 .. Len(ups)}))
        /\ ev' = Event("commitMembers", f.g, f.via, f,
                       Hooks(ns, ini).log)
  /\ UNCHANGED <<groupId, actor, groups, skipFinalize, bulkRollInProgress,
                 groupInitiativeProcessed, boundVars>>

\* combat.setFlag(MODULE_ID, `groups.${g}.initiative`, avgInit) takes effect.
CommitGroupWrite(f) ==
  /\ f.pc = "persist" /\ f.gW = "pending"
  /\ groups' = setGroupInitiative(groups, f.g, f.avgInit)
  /\ tasks' = Replace(f, AfterPersist([f EXCEPT !.gW = "ok"]))
  /\ finalized' = Touch({f.g})
  /\ ev' = Event("commitGroup", f.g, f.via, f, << >>)
  /\ UNCHANGED <<initiative, sort, groupId, actor, guardVars, boundVars>>

\* The frame's ordering step stands: it covered every member of the group
\* and the documents hold exactly what it wrote.
Stands(f) ==
  /\ f.g \in GroupIds
  /\ {f.updates[i].id : i \in 1 .. Len(f.updates)} = MembersOf(groupId, f.g)
  /\ \A i \in 1 .. Len(f.updates) :
       initiative[f.updates[i].id] = <<f.updates[i].initiative>>
  /\ groups[f.g].exists /\ groups[f.g].initiative = f.avgInit

\* combat.unsetFlag(MODULE_ID, `skipFinalize.${g}`) takes effect.
ClearSkipFlag(f) ==
  /\ f.pc = "clearSkip"
  /\ skipFinalize' = [skipFinalize EXCEPT ![f.g] = FALSE]
  /\ tasks' = Replace(f, [f EXCEPT !.pc = "summary"])
  /\ ev' = Event("clearSkip", f.g, f.via, f, << >>)
  /\ UNCHANGED <<dataVars, mutex, bulkRollInProgress, groupInitiativeProcessed,
                 finalized, boundVars>>

\* The mutex stays as it is when the call returns.
ReleaseMutex_never(f) == mutex

\* The finally block of finalizeGroupInitiative:
\* if (!bypassMutex) this._mutex = false.
ReleaseMutex(f) == IF f.kind = "finalize" /\ ~f.bypass THEN FALSE ELSE mutex

(* ----------------------------- group index ---------------------------- *)
RECURSIVE Dedupe(_, _)
Dedupe(s, seen) ==
  IF s = << >> THEN << >>
  ELSE IF Head(s) \in seen THEN Dedupe(Tail(s), seen)
       ELSE <<Head(s)>> \o Dedupe(Tail(s), seen \cup {Head(s)})

\* The keys listed once per combatant instead of once per group.
GetGroupsKeys_perCombatant ==
  [i \in 1 .. NumMembers |-> groupId[Combatants[i]]]
    \o SelectSeq([h \in 1 .. NumGroups |-> h], LAMBDA h :
          groups[h].exists /\ MembersOf(groupId, h) = {})

\* [...GroupManager.getGroups(combat.turns, combat).keys()]: the group of
\* every combatant in first-seen order, then the stored groups without one.
GetGroupsKeys ==
  LET ofMembers == Dedupe([i \in 1 .. NumMembers |-> groupId[Combatants[i]]], {})
      stored == SelectSeq([h \in 1 .. NumGroups |-> h], LAMBDA h :
                  groups[h].exists /\ MembersOf(groupId, h) = {})
  IN ofMembers \o stored

(* --------------------------- bulk-roll wrapper ------------------------ *)
RECURSIVE FirstReady(_)
\* How many leading groups of the list finalize to a no-op (bypassMutex).
FirstReady(rem) ==
  IF rem = << >> THEN 0
  ELSE IF FinalizeOutcome(initiative, mutex, Head(rem), TRUE) = "run" THEN 0
       ELSE 1 + FirstReady(Tail(rem))

CountCalls(counts, called) ==
  [h \in DOMAIN counts |->
     counts[h] + Cardinality({i \in 1 .. Len(called) : called[i] = h})]

\* The for-loop of the wrapper from its current position: it calls
\* finalizeGroupInitiative(g, {bypassMutex: true}) group by group until one
\* call suspends in its persistence step, or the list ends and the finally
\* block runs.
BulkContinue(f, base, rem) ==
  LET k == FirstReady(rem) IN
  IF k = Len(rem)
  THEN /\ tasks' = Replace(f,
                      [IdleTask EXCEPT !.kind = "bulk", !.pc = "timer",
                                       !.index = base.index,
                                       !.counts = CountCalls(base.counts, rem)])
       /\ bulkRollInProgress' = FALSE
  ELSE /\ tasks' = Replace(f,
                      Frame([base EXCEPT !.remaining = SubSeq(rem, k + 2, Len(rem)),
                                         !.counts = CountCalls(base.counts,
                                                       SubSeq(rem, 1, k + 1))],
                            initiative, sort, finalized,
                            rem[k + 1], "bulk", TRUE, FALSE,
                            Shaped(initiative, rem[k + 1])))
       /\ UNCHANGED bulkRollInProgress

\* wrapperCallback is entered: Combat.rollAll or Combat.rollNPC was called.
BulkStart ==
  /\ MayStart
  /\ tasks' = With(tasks,
                 [IdleTask EXCEPT !.kind = "bulk",
                    !.pc = IF groupInitiativeProcessed THEN "originalOnly"
                           ELSE "wrapped"])
  /\ bulkRollInProgress' = IF groupInitiativeProcessed THEN bulkRollInProgress
                           ELSE TRUE
  /\ ev' = Event(IF groupInitiativeProcessed THEN "bulkReentry" ELSE "bulkStart",
                 UNGROUPED, "bulk", IdleTask, << >>)
  /\ UNCHANGED <<dataVars, skipFinalize, mutex, groupInitiativeProcessed,
                 finalized, fixedVars>>
  /\ opsLeft' = opsLeft - 1

\* The wrapped host operation (Combat.rollAll) writes the initiatives it
\* rolled, in one batch, for every combatant that had none, and the handler
\* runs for each of them.
BulkWrappedWrite(f, total) ==
  LET S == {m \in Members : initiative[m] = Null}
      ini == [m \in Members |-> IF m \in S THEN <<total[m]>> ELSE initiative[m]]
      ms == FilterSeq(Combatants, S)
      ns == [i \in 1 .. Len(ms) |-> [m |-> ms[i], hasInit |-> TRUE]]
      tk == Replace(f, [f EXCEPT !.pc =
               IF f.pc = "wrapped" THEN "wrappedDone" ELSE "originalDone"])
  IN
  /\ f.pc \in {"wrapped", "originalOnly"}
  /\ S # {}
  /\ WriteAndNotify(ini, sort, ns, tk, Touch({groupId[m] : m \in S}))
  /\ ev' = Event("bulkWrite", UNGROUPED, "host", f, Hooks(ns, ini).log)
  /\ UNCHANGED <<groupId, actor, groups, skipFinalize, bulkRollInProgress,
                 groupInitiativeProcessed, boundVars>>

\* The wrapped host operation returns.  On the re-entry path that is all;
\* otherwise the wrapper marks the combat processed and starts the delay.
BulkWrappedReturn(f) ==
  /\ \/ f.pc \in {"wrappedDone", "originalDone"}
     \/ f.pc \in {"wrapped", "originalOnly"}
          /\ \A m \in Members : initiative[m] # Null
  /\ IF f.pc \in {"wrapped", "wrappedDone"}
     THEN /\ groupInitiativeProcessed' = TRUE
          /\ tasks' = Replace(f, [f EXCEPT !.pc = "delay"])
          /\ ev' = Event("bulkRolled", UNGROUPED, "bulk", f, << >>)
     ELSE /\ UNCHANGED groupInitiativeProcessed
          /\ tasks' = Without(f)
          /\ ev' = Event("bulkOriginalDone", UNGROUPED, "bulk", f, << >>)
  /\ UNCHANGED <<dataVars, skipFinalize, mutex, bulkRollInProgress,
                 finalized, boundVars>>

\* The settle delay has elapsed: the group index is read and the loop runs.
BulkDelayDone(f) ==
  /\ f.pc = "delay"
  /\ LET keys == GetGroupsKeys
         groupIds == SelectSeq(keys, LAMBDA h : h # UNGROUPED)
     IN BulkContinue(f, [f EXCEPT !.index = groupIds], groupIds)
  /\ ev' = Event("bulkLoop", UNGROUPED, "bulk", f, << >>)
  /\ UNCHANGED <<dataVars, skipFinalize, mutex, groupInitiativeProcessed,
                 finalized, boundVars>>

\* setTimeout(() => delete this._groupInitiativeProcessed, 0) fires.
BulkTimer(f) ==
  /\ f.pc = "timer"
  /\ groupInitiativeProcessed' = FALSE
  /\ tasks' = Without(f)
  /\ ev' = Event("bulkDone", UNGROUPED, "bulk", f, << >>)
  /\ UNCHANGED <<dataVars, skipFinalize, mutex, bulkRollInProgress,
                 finalized, boundVars>>

(* ------------------------------ chat summary -------------------------- *)
\* ChatMessage.create of the summary resolves and _applyGroupOrder returns
\* to its caller: finalizeGroupInitiative releases the mutex it took, the
\* wrapper goes on with its loop, rollGroupAndApplyInitiative ends.
Summary(f) ==
  /\ f.pc = "summary"
  /\ finalized' = [h \in GroupIds |->
                     IF h = f.g THEN Stands(f) ELSE finalized[h]]
  /\ ev' = Event(IF f.kind = "roll" THEN "rollDone" ELSE "finalizeDone",
                 f.g, f.via, f, << >>)
  /\ IF f.kind = "bulk"
     THEN /\ BulkContinue(f, f, f.remaining)
          /\ UNCHANGED mutex
     ELSE /\ tasks' = Without(f)
          /\ mutex' = ReleaseMutex(f)
          /\ UNCHANGED bulkRollInProgress
  /\ UNCHANGED <<dataVars, skipFinalize, groupInitiativeProcessed, boundVars>>

(* --------------------- rollGroupAndApplyInitiative -------------------- *)
\* Every member of the group is rolled, whether or not it holds a value.
ToRoll_everyMember(g) == MemberList(groupId, g)

\* toRoll: members.filter(c => c.initiative == null).
ToRoll(g) == SelectSeq(MemberList(groupId, g), LAMBDA m : initiative[m] = Null)

\* The call is entered: it collects the members without an initiative and,
\* when there are some, asks for the group's skip flag to be set.
RollStart(g) ==
  /\ MayStart
  /\ LET toRoll == ToRoll(g)
     IN IF toRoll = << >>
        THEN /\ UNCHANGED tasks
             /\ ev' = Event("rollNothing", g, "roll", IdleTask, << >>)
        ELSE /\ tasks' = With(tasks,
                            [IdleTask EXCEPT !.kind = "roll", !.pc = "setSkip",
                                             !.g = g, !.via = "roll",
                                             !.toRoll = toRoll])
             /\ ev' = Event("rollStart", g, "roll", IdleTask, << >>)
  /\ manual' = Forget({g})
  /\ UNCHANGED <<dataVars, guardVars, finalized, envVars>>
  /\ opsLeft' = opsLeft - 1

\* combat.setFlag(MODULE_ID, `skipFinalize.${g}`, true) takes effect.
RollSetSkip(f) ==
  /\ f.pc = "setSkip"
  /\ skipFinalize' = [skipFinalize EXCEPT ![f.g] = TRUE]
  /\ tasks' = Replace(f, [f EXCEPT !.pc = "rolling"])
  /\ ev' = Event("setSkip", f.g, "roll", f, << >>)
  /\ UNCHANGED <<dataVars, mutex, bulkRollInProgress, groupInitiativeProcessed,
                 finalized, boundVars>>

\* One iteration of the roll loop: the die is evaluated to total and the
\* roll is posted; after the last one the batch write of the rolls is issued.
RollOne(f, total) ==
  /\ f.pc = "rolling"
  /\ LET c == f.toRoll[Len(f.rolled) + 1]
         rolled == Append(f.rolled,
                          [id |-> c, init |-> total, dex |-> actor[c].mod])
     IN tasks' = Replace(f, [f EXCEPT !.rolled = rolled,
                                      !.pc = IF Len(rolled) = Len(f.toRoll)
                                             THEN "writeRolls" ELSE "rolling"])
  /\ ev' = Event("rollOne", f.g, "roll", f, << >>)
  /\ UNCHANGED <<dataVars, guardVars, finalized, boundVars>>

\* updateEmbeddedDocuments of the rolled initiatives takes effect and the
\* handler runs for each of them; then the call resumes and enters
\* _applyGroupOrder with rolledSummary, asking it to clear the skip flag.
RollWrite(f) ==
  /\ f.pc = "writeRolls"
  /\ LET ups == [i \in 1 .. Len(f.rolled) |->
                   [id |-> f.rolled[i].id,
                    sort |-> sort[f.rolled[i].id],
                    initiative |-> f.rolled[i].init]]
         ini == ApplyUpdates(initiative, ups, "initiative")
         ns == Notifications(ups)
         fin == Touch({groupId[ups[i].id] : i \in 1 .. Len(ups)})
         tk == Replace(f,
                  Frame(f, ini, sort, fin, f.g, "roll", TRUE, TRUE, f.rolled))
     IN /\ WriteAndNotify(ini, sort, ns, tk, fin)
        /\ ev' = Event("rollWrite", f.g, "roll", f, Hooks(ns, ini).log)
  /\ UNCHANGED <<groupId, actor, groups, skipFinalize, bulkRollInProgress,
                 groupInitiativeProcessed, boundVars>>

(* ------------------------------- failures ----------------------------- *)
\* The batch write of the member values is rejected.
FailMemberWrite(f) ==
  /\ f.pc = "persist" /\ f.mW = "pending"
  /\ tasks' = Replace(f, AfterPersist([f EXCEPT !.mW = "failed"]))
  /\ ev' = Event("failMembers", f.g, f.via, f, << >>)
  /\ UNCHANGED <<dataVars, guardVars, finalized, boundVars>>

\* The write of the aggregate is rejected.
FailGroupWrite(f) ==
  /\ f.pc = "persist" /\ f.gW = "pending"
  /\ tasks' = Replace(f, AfterPersist([f EXCEPT !.gW = "failed"]))
  /\ ev' = Event("failGroup", f.g, f.via, f, << >>)
  /\ UNCHANGED <<dataVars, guardVars, finalized, boundVars>>

\* The catch block of _applyGroupOrder: the removal of the skip flag takes
\* effect, then the error is thrown on.
CleanupSkip(f) ==
  /\ f.pc = "cleanupSkip"
  /\ skipFinalize' = [skipFinalize EXCEPT ![f.g] = FALSE]
  /\ tasks' = Replace(f, [f EXCEPT !.pc = "caught"])
  /\ ev' = Event("cleanupSkip", f.g, f.via, f, << >>)
  /\ UNCHANGED <<dataVars, mutex, bulkRollInProgress, groupInitiativeProcessed,
                 finalized, boundVars>>

\* The catch block of rollGroupAndApplyInitiative leaves the skip flag as
\* it is.
RollCatch_keepsFlag(flags, g) == flags

\* The catch block of rollGroupAndApplyInitiative: unsetFlag of the group's
\* skip flag.
RollCatch(flags, g) == [flags EXCEPT ![g] = FALSE]

\* The error thrown by _applyGroupOrder reaches its caller.
\* finalizeGroupInitiative logs it in its catch block, releases the mutex
\* it took and returns normally (to the handler, to a direct caller, or to
\* the wrapper, which goes on with its loop); rollGroupAndApplyInitiative
\* enters its own catch block.
Caught(f) ==
  /\ f.pc = "caught"
  /\ IF f.kind = "roll"
     THEN /\ tasks' = Replace(f, [f EXCEPT !.pc = "rollCleanup"])
          /\ ev' = Event("rollCaught", f.g, f.via, f, << >>)
          /\ UNCHANGED <<mutex, bulkRollInProgress>>
     ELSE /\ ev' = Event("finalizeDone", f.g, f.via, f, << >>)
          /\ IF f.kind = "bulk"
             THEN /\ BulkContinue(f, [f EXCEPT !.failed = FALSE], f.remaining)
                  /\ UNCHANGED mutex
             ELSE /\ tasks' = Without(f)
                  /\ mutex' = ReleaseMutex(f)
                  /\ UNCHANGED bulkRollInProgress
  /\ UNCHANGED <<dataVars, skipFinalize, groupInitiativeProcessed, finalized,
                 boundVars>>

\* The catch block of rollGroupAndApplyInitiative has notified the user and
\* its removal of the skip flag takes effect; the call returns normally.
RollCleanup(f) ==
  /\ f.pc = "rollCleanup"
  /\ skipFinalize' = RollCatch(skipFinalize, f.g)
  /\ tasks' = Without(f)
  /\ ev' = Event("rollDone", f.g, "roll", f, << >>)
  /\ UNCHANGED <<dataVars, mutex, bulkRollInProgress, groupInitiativeProcessed,
                 finalized, boundVars>>

\* The request that sets the skip flag is rejected: it is awaited outside
\* the try block, so the call rejects.
FailSetSkip(f) ==
  /\ f.pc = "setSkip"
  /\ tasks' = Without(f)
  /\ ev' = Event("rollDone", f.g, "roll",
                 [f EXCEPT !.failed = TRUE, !.result = "rejected"], << >>)
  /\ UNCHANGED <<dataVars, guardVars, finalized, boundVars>>

\* A roll is rejected (roll.evaluate or roll.toMessage), or the batch write
\* of the rolled initiatives is.
FailRoll(f) ==
  /\ f.pc \in {"rolling", "writeRolls"}
  /\ tasks' = Replace(f, [f EXCEPT !.pc = "rollCleanup", !.failed = TRUE])
  /\ ev' = Event("rollFailed", f.g, "roll", f, << >>)
  /\ UNCHANGED <<dataVars, guardVars, finalized, boundVars>>

\* The wrapped host operation is rejected.  The wrapper that took the bulk
\* flag logs the error and runs its finally block; on the re-entry path the
\* rejection is the caller's.
FailWrapped(f) ==
  /\ f.pc \in {"wrapped", "originalOnly"}
  /\ IF f.pc = "wrapped"
     THEN /\ tasks' = Replace(f, [f EXCEPT !.pc = "timer", !.failed = TRUE])
          /\ bulkRollInProgress' = FALSE
     ELSE /\ tasks' = Without(f)
          /\ UNCHANGED bulkRollInProgress
  /\ ev' = Event("wrappedFailed", UNGROUPED, "bulk", f, << >>)
  /\ UNCHANGED <<dataVars, skipFinalize, mutex, groupInitiativeProcessed,
                 finalized, boundVars>>

\* A request of a call in flight is rejected, or a call handles a rejection.
FailStep(f) ==
  \/ FailMemberWrite(f)
  \/ FailGroupWrite(f)
  \/ CleanupSkip(f)
  \/ Caught(f)
  \/ RollCleanup(f)
  \/ FailSetSkip(f)
  \/ FailRoll(f)
  \/ FailWrapped(f)

(* ------------------- Set Group Initiative (context menu) -------------- *)
\* Every member is given the entered value itself.
Rebased_toBase(init, base, sum, n) == base

\* base + ((c.initiative ?? 0) - oldAvg), with oldAvg = sum / n.
Rebased(init, base, sum, n) == base + init - (sum \div n)

\* The callback of the menu entry once the dialog has returned base for
\* group g: it computes the re-based member values and issues the member
\* batch write and the aggregate write together.
SetGroupInitiative(g, base) ==
  /\ MayStart
  /\ LET old == Shaped(initiative, g)
         sum == SumSeq([i \in 1 .. Len(old) |-> old[i].init])
         ups == [i \in 1 .. Len(old) |->
                   [id |-> old[i].id, sort |-> sort[old[i].id],
                    initiative |-> Rebased(old[i].init, base, sum, Len(old))]]
     IN IF old = << >>
        THEN UNCHANGED <<tasks, manual>>
        ELSE /\ tasks' = With(tasks,
                        [IdleTask EXCEPT !.kind = "override", !.pc = "rebase",
                                         !.g = g, !.via = "menu", !.list = old,
                                         !.updates = ups, !.avgInit = <<base>>,
                                         !.arg = <<base>>,
                                         !.mW = "pending", !.gW = "pending"])
             /\ manual' = [manual EXCEPT ![g] =
                             <<[initiative |-> base, updates |-> ups]>>]
  /\ ev' = Event("overrideStart", g, "menu", IdleTask, << >>)
  /\ UNCHANGED <<dataVars, guardVars, finalized, envVars>>
  /\ opsLeft' = opsLeft - 1

\* combat.updateEmbeddedDocuments("Combatant", updates) of the re-based
\* values takes effect and the handler runs for every changed document.
RebaseMemberWrite(f) ==
  /\ f.pc = "rebase" /\ f.mW = "pending"
  /\ LET ups == [i \in 1 .. Len(f.updates) |->
                   [f.updates[i] EXCEPT !.sort = sort[f.updates[i].id]]]
         ini == ApplyUpdates(initiative, ups, "initiative")
         ns == Notifications(ups)
         f2 == [f EXCEPT !.mW = "ok"]
         tk == IF f.gW = "ok" THEN Without(f) ELSE Replace(f, f2)
     IN /\ WriteAndNotify(ini, sort, ns, tk, Touch({f.g}))
        /\ ev' = Event("rebaseMembers", f.g, "menu", f2, Hooks(ns, ini).log)
  /\ UNCHANGED <<groupId, actor, groups, skipFinalize, bulkRollInProgress,
                 groupInitiativeProcessed, boundVars>>

\* combat.update({flags.groups.g.initiative: base}) takes effect.
RebaseGroupWrite(f) ==
  /\ f.pc = "rebase" /\ f.gW = "pending"
  /\ groups' = setGroupInitiative(groups, f.g, f.avgInit)
  /\ tasks' = IF f.mW = "ok" THEN Without(f)
              ELSE Replace(f, [f EXCEPT !.gW = "ok"])
  /\ finalized' = Touch({f.g})
  /\ ev' = Event("rebaseGroup", f.g, "menu", [f EXCEPT !.gW = "ok"], << >>)
  /\ UNCHANGED <<initiative, sort, groupId, actor, guardVars, boundVars>>

\* The callback of the menu entry resumes.
OverrideStep(f) ==
  \/ RebaseMemberWrite(f)
  \/ RebaseGroupWrite(f)

(* ------------------------- resetGroupInitiative ----------------------- *)
\* resetGroupInitiative(combat, g) is entered: it issues the write that
\* clears the initiative of every member of the group and the write that
\* clears the aggregate.
ResetGroupInitiative(g) ==
  /\ MayStart
  /\ tasks' = With(tasks,
                 [IdleTask EXCEPT !.kind = "reset", !.pc = "reset", !.g = g,
                                  !.via = "api", !.list = Shaped(initiative, g),
                                  !.mW = "pending", !.gW = "pending"])
  /\ manual' = Forget({g})
  /\ ev' = Event("resetStart", g, "api", IdleTask, << >>)
  /\ UNCHANGED <<dataVars, guardVars, finalized, envVars>>
  /\ opsLeft' = opsLeft - 1

\* The write of initiative: null to the members takes effect and the
\* handler runs for every member that held a value.
ResetMemberWrite(f) ==
  /\ f.pc = "reset" /\ f.mW = "pending"
  /\ LET S == MembersOf(groupId, f.g)
         ini == [m \in Members |-> IF m \in S THEN Null ELSE initiative[m]]
         ms == FilterSeq(Combatants, {m \in S : initiative[m] # Null})
         ns == [i \in 1 .. Len(ms) |-> [m |-> ms[i], hasInit |-> TRUE]]
         f2 == [f EXCEPT !.mW = "ok"]
         tk == IF f.gW = "ok" THEN Without(f) ELSE Replace(f, f2)
     IN /\ WriteAndNotify(ini, sort, ns, tk, Touch({f.g}))
        /\ ev' = Event(IF f.gW = "ok" THEN "resetDone" ELSE "resetMembers",
                       f.g, "api", f2, Hooks(ns, ini).log)
  /\ UNCHANGED <<groupId, actor, groups, skipFinalize, bulkRollInProgress,
                 groupInitiativeProcessed, boundVars>>

\* The write of a null aggregate takes effect.
ResetGroupWrite(f) ==
  /\ f.pc = "reset" /\ f.gW = "pending"
  /\ groups' = [groups EXCEPT ![f.g].initiative = Null]
  /\ tasks' = IF f.mW = "ok" THEN Without(f)
              ELSE Replace(f, [f EXCEPT !.gW = "ok"])
  /\ finalized' = Touch({f.g})
  /\ ev' = Event(IF f.mW = "ok" THEN "resetDone" ELSE "resetGroup",
                 f.g, "api", [f EXCEPT !.gW = "ok"], << >>)
  /\ UNCHANGED <<initiative, sort, groupId, actor, guardVars, boundVars>>

\* A resetGroupInitiative call resumes.
ResetStep(f) ==
  \/ ResetMemberWrite(f)
  \/ ResetGroupWrite(f)

(* ------------------------------ deleteGroup --------------------------- *)
\* No member is unassigned.
DeleteTargets_none(g) == << >>

\* members: combat.combatants.filter(c => c.getFlag("groupId") === groupId).
DeleteTargets(g) == MemberList(groupId, g)

\* deleteGroup(combat, g) once its confirmation dialog has been answered:
\* cancelled, it returns false; confirmed, it issues the removal of the
\* group record and, when the group has members, the batch write that
\* removes their groupId flag.
DeleteGroup(g, confirmed) ==
  /\ MayStart
  /\ IF confirmed
     THEN /\ tasks' = With(tasks,
                 [IdleTask EXCEPT !.kind = "delete", !.pc = "delete", !.g = g,
                    !.via = "api", !.list = Shaped(initiative, g),
                    !.toRoll = DeleteTargets(g),
                    !.mW = IF DeleteTargets(g) = << >> THEN "ok" ELSE "pending",
                    !.gW = "pending"])
          /\ manual' = Forget({g})
          /\ ev' = Event("deleteStart", g, "api", IdleTask, << >>)
     ELSE /\ UNCHANGED <<tasks, manual>>
          /\ ev' = Event("deleteCancelled", g, "api", IdleTask, << >>)
  /\ UNCHANGED <<dataVars, guardVars, finalized, envVars>>
  /\ opsLeft' = opsLeft - 1

\* The batch write that removes the groupId flag of the members takes
\* effect; the handler runs for each of them and returns at once, the
\* change not being one of initiative.
DeleteMemberWrite(f) ==
  /\ f.pc = "delete" /\ f.mW = "pending"
  /\ LET S == {f.toRoll[i] : i \in 1 .. Len(f.toRoll)}
         ns == [i \in 1 .. Len(f.toRoll) |-> [m |-> f.toRoll[i], hasInit |-> FALSE]]
         f2 == [f EXCEPT !.mW = "ok"]
         tk == IF f.gW = "ok" THEN Without(f) ELSE Replace(f, f2)
     IN /\ groupId' = [m \in Members |-> IF m \in S THEN UNGROUPED ELSE groupId[m]]
        /\ WriteAndNotify(initiative, sort, ns, tk, Touch({f.g}))
        /\ ev' = Event(IF f.gW = "ok" THEN "deleteDone" ELSE "deleteMembers",
                       f.g, "api", f2, Hooks(ns, initiative).log)
  /\ UNCHANGED <<actor, groups, skipFinalize, bulkRollInProgress,
                 groupInitiativeProcessed, boundVars>>

\* combat.update({"flags.<module>.groups.-=g": null}) takes effect.
DeleteGroupWrite(f) ==
  /\ f.pc = "delete" /\ f.gW = "pending"
  /\ groups' = [groups EXCEPT ![f.g] = NoGroup]
  /\ tasks' = IF f.mW = "ok" THEN Without(f)
              ELSE Replace(f, [f EXCEPT !.gW = "ok"])
  /\ finalized' = Touch({f.g})
  /\ ev' = Event(IF f.mW = "ok" THEN "deleteDone" ELSE "deleteGroup",
                 f.g, "api", [f EXCEPT !.gW = "ok"], << >>)
  /\ UNCHANGED <<initiative, sort, groupId, actor, guardVars, boundVars>>

\* A deleteGroup call resumes.
DeleteStep(f) ==
  \/ DeleteMemberWrite(f)
  \/ DeleteGroupWrite(f)

(* ------------------------- binary64 arithmetic ------------------------ *)
\* The morale threshold is computed in JavaScript numbers (IEEE 754
\* binary64), and is modelled with their rounding.  A non-negative double
\* is [bits, exp]: bits is its significand as a sequence of binary digits,
\* the most significant first and never 0 (<< >> is zero), and its value
\* is BitsValue(bits) / 2^exp.
Precision == 53

Zeros(n) == [i \in 1 .. n |-> 0]

RECURSIVE BitsValue(_)
BitsValue(b) ==
  IF b = << >> THEN 0
  ELSE IF Len(b) = 1 THEN b[1]
  ELSE LET h == Len(b) \div 2
       IN  BitsValue(SubSeq(b, 1, h)) * 2 ^ (Len(b) - h)
             + BitsValue(SubSeq(b, h + 1, Len(b)))

RECURSIVE ToBits(_)
ToBits(n) == IF n = 0 THEN << >> ELSE Append(ToBits(n \div 2), n % 2)

StripZeros(b) ==
  LET ones == {i \in 1 .. Len(b) : b[i] = 1}
  IN  IF ones = {} THEN << >>
      ELSE SubSeq(b, CHOOSE i \in ones : \A j \in ones : i <= j, Len(b))

Increment(b) ==
  LET zeros == {i \in 1 .. Len(b) : b[i] = 0}
  IN  IF zeros = {} THEN <<1>> \o Zeros(Len(b))
      ELSE LET p == CHOOSE i \in zeros : \A j \in zeros : j <= i
           IN  SubSeq(b, 1, p - 1) \o <<1>> \o Zeros(Len(b) - p)

\* Round to nearest, ties to even: the exact value is b / 2^exp plus, when
\* sticky, something below the last digit of b.
RoundToDouble(b, exp, sticky) ==
  IF Len(b) <= Precision THEN [bits |-> b, exp |-> exp]
  ELSE LET kept == SubSeq(b, 1, Precision)
           dropped == SubSeq(b, Precision + 1, Len(b))
           more == sticky \/ \E i \in 2 .. Len(dropped) : dropped[i] = 1
           up == dropped[1] = 1 /\ (more \/ kept[Precision] = 1)
           r == IF up THEN Increment(kept) ELSE kept
           e == exp - Len(dropped)
       IN  IF Len(r) > Precision
           THEN [bits |-> SubSeq(r, 1, Precision), exp |-> e - 1]
           ELSE [bits |-> r, exp |-> e]

\* n more binary digits of r / d, for 0 <= r < d, and the remainder.  The
\* first half is computed before the second half is begun.
RECURSIVE LongDivide(_, _, _)
LongDivide(r, d, n) ==
  IF n = 0 THEN [bits |-> << >>, rem |-> r]
  ELSE IF n = 1
  THEN LET bit == IF 2 * r >= d THEN 1 ELSE 0
       IN  [bits |-> <<bit>>, rem |-> 2 * r - bit * d]
  ELSE LET first == LongDivide(r, d, n \div 2)
       IN  IF first.rem = 0
           THEN [bits |-> first.bits \o Zeros(n - n \div 2), rem |-> 0]
           ELSE LET second == LongDivide(first.rem, d, n - n \div 2)
                IN  [bits |-> first.bits \o second.bits, rem |-> second.rem]

\* How many zeros the binary expansion of r / d starts with (0 < r < d).
RECURSIVE LeadingZeros(_, _)
LeadingZeros(r, d) == IF 2 * r >= d THEN 0 ELSE 1 + LeadingZeros(2 * r, d)

\* The double n / d, for integers n >= 0 and d > 0.
DoubleQuotient(n, d) ==
  LET r == n % d
      places == IF r = 0 THEN 0 ELSE LeadingZeros(r, d) + Precision + 1
      frac == LongDivide(r, d, places)
  IN  RoundToDouble(StripZeros(ToBits(n \div d) \o frac.bits), places,
                    frac.rem # 0)

\* b * n + carry for an integer n >= 0: the last Len(b) digits, and what
\* is carried out of them.  The low half is computed before the high half
\* is begun.
RECURSIVE TimesInteger(_, _, _)
TimesInteger(b, n, carry) ==
  IF b = << >> THEN [bits |-> << >>, carry |-> carry]
  ELSE IF Len(b) = 1
  THEN LET d == n * b[1] + carry
       IN  [bits |-> <<d % 2>>, carry |-> d \div 2]
  ELSE LET h == Len(b) \div 2
           low == TimesInteger(SubSeq(b, h + 1, Len(b)), n, carry)
       IN  IF low.carry = 0 /\ n = 0
           THEN [bits |-> Zeros(h) \o low.bits, carry |-> 0]
           ELSE LET high == TimesInteger(SubSeq(b, 1, h), n, low.carry)
                IN  [bits |-> high.bits \o low.bits, carry |-> high.carry]

\* The double n * x, for an integer n >= 0 and a double x.
DoubleProduct(n, x) ==
  LET p == TimesInteger(x.bits, n, 0)
  IN  RoundToDouble(StripZeros(ToBits(p.carry) \o p.bits), x.exp, FALSE)

\* Math.floor of a double x >= 0 below 2^31.
MathFloor(x) ==
  IF x.exp <= 0 THEN BitsValue(x.bits \o Zeros(-x.exp))
  ELSE BitsValue(SubSeq(x.bits, 1, Len(x.bits) - x.exp))

(* -------------------------------- morale ------------------------------ *)
engineVars == <<dataVars, guardVars, tasks, finalized, maxTasks, userIsGM, collection, manual,
                opsLeft, ev>>

\* The setting moraleAutoPromptThreshold: 0 to 100 in steps of 5.
ThresholdStep == 5
Thresholds == {ThresholdStep * k : k \in 0 .. (100 \div ThresholdStep)}
\* The group sizes met: those of the combatants of the engine, and crowds
\* of tens of combatants.
CrowdSizes == {10 * k : k \in 0 .. MaxCrowd}
Sizes == (0 .. NumMembers) \cup CrowdSizes

NoMark == [what |-> "none", living |-> 0]
\* No rollMorale call in flight.  Of a call in flight: the group, the await
\* it is suspended at, the discipline and the living members it read, the
\* numbers it computed from them, the two lists of its results, the
\* combatants it put the status effect on and what it returned.
NoCall ==
  [g |-> UNGROUPED, pc |-> "none", discipline |-> "none", living |-> << >>,
   dc |-> 0, casualtyPenalty |-> 0, mobConfidence |-> 0,
   mobConfidenceDivisor |-> 0, passed |-> << >>, failed |-> << >>,
   applied |-> << >>, result |-> "none"]
\* The setting moraleMobConfidenceDivisor by default.
DefaultDivisor == 3
\* The morale feature disabled and no combatant with an actor.
MoraleOff ==
  [enabled |-> FALSE, threshold |-> 0, promptedGroups |-> {},
   startingSize |-> [g \in GroupIds |-> Null], combatants |-> << >>,
   rolling |-> {}, mark |-> [g \in GroupIds |-> NoMark],
   prompts |-> [g \in GroupIds |-> 0],
   deletedCount |-> [g \in GroupIds |-> 0],
   moraleMobConfidenceDivisor |-> DefaultDivisor,
   mobConfidenceDivisor |-> [g \in GroupIds |-> Null],
   call |-> NoCall, kept |-> {}, published |-> {}]
\* A combatant of group g with a token, standing, without the effect.
Standing(g) == [groupId |-> g, hp |-> <<1>>, token |-> TRUE, effect |-> FALSE]

getLivingMembers(mo, g) ==
  {i \in DOMAIN mo.combatants :
     /\ mo.combatants[i].groupId = g
     /\ mo.combatants[i].hp # Null
     /\ mo.combatants[i].hp[1] > 0}

getDeadMembers(mo, g) ==
  {i \in DOMAIN mo.combatants :
     /\ mo.combatants[i].groupId = g
     /\ mo.combatants[i].hp # Null
     /\ mo.combatants[i].hp[1] <= 0}

\* The deleted members are not counted.
getCasualtyCount_dead(mo, g) == Cardinality(getDeadMembers(mo, g))

\* dead + (deletedCount ?? 0).
getCasualtyCount(mo, g) ==
  Cardinality(getDeadMembers(mo, g)) + mo.deletedCount[g]

\* Math.floor(livingCount / divisor), the quotient being a double.
getMobConfidence(livingCount, divisor) ==
  MathFloor(DoubleQuotient(livingCount, divisor))

\* Math.floor(startingSize * (threshold / 100)).
ThresholdCount(startingSize, threshold) ==
  MathFloor(DoubleProduct(startingSize, DoubleQuotient(threshold, 100)))
\* The same, tabulated.
ThresholdCounts ==
  [s \in Sizes, t \in Thresholds |-> ThresholdCount(s, t)]

shouldAutoPrompt(mo, g) ==
  IF mo.threshold <= 0 THEN FALSE
  ELSE IF g \in mo.promptedGroups THEN FALSE
  ELSE IF mo.startingSize[g] = Null \/ mo.startingSize[g][1] <= 0 THEN FALSE
  ELSE Cardinality(getLivingMembers(mo, g))
         <= ThresholdCounts[mo.startingSize[g][1], mo.threshold]

\* History: group g is marked now; a prompt is marked with the number of
\* living members it was sent at.
Marked(mo, g, what) ==
  [mo.mark EXCEPT ![g] =
     [what |-> what,
      living |-> IF what = "prompted"
                 THEN Cardinality(getLivingMembers(mo, g)) ELSE 0]]
\* History: the groups of S are no longer marked.
Released(mo, S) ==
  [g \in GroupIds |->
     IF g \in S /\ mo.mark[g].what # "none"
     THEN [what |-> "released", living |-> 0] ELSE mo.mark[g]]

\* _promptedGroups is left as it was.
MarkPrompted_forgets(set, g) == set

\* _promptedGroups.add(groupId).
MarkPrompted(set, g) == set \cup {g}

\* A sendAutoPrompt call suspended at ChatMessage.create of its whisper.
Whisper(g) == [IdleTask EXCEPT !.kind = "prompt", !.pc = "whisper", !.g = g,
                               !.via = "morale"]

\* The whisper is created without a look at _promptedGroups, and the group
\* is not added to it.
sendAutoPrompt_unmarked(mo, g) ==
  [mo |-> [mo EXCEPT !.mark = Marked(mo, g, "prompted")], whisper |-> <<g>>]

\* sendAutoPrompt up to its first await: for a group already in
\* _promptedGroups it returns, else it adds the group and calls
\* ChatMessage.create of the whisper.
sendAutoPrompt(mo, g) ==
  IF g \in mo.promptedGroups THEN [mo |-> mo, whisper |-> << >>]
  ELSE [mo |-> [mo EXCEPT !.promptedGroups = MarkPrompted(@, g),
                          !.mark = Marked(mo, g, "prompted")],
        whisper |-> <<g>>]

\* The hit points of the actor of combatant i change to hp, and the
\* updateActor handler runs (each actor has one combatant) up to its first
\* await, inside sendAutoPrompt.
UpdateActor(i, hp) ==
  /\ i \in DOMAIN morale.combatants
  /\ morale.combatants[i].hp # hp
  /\ LET changed == [morale EXCEPT !.combatants[i].hp = hp]
         g == changed.combatants[i].groupId
     IN  IF /\ changed.enabled
            /\ g # UNGROUPED
            /\ shouldAutoPrompt(changed, g)
         THEN LET sent == sendAutoPrompt(changed, g)
              IN  /\ morale' = [sent.mo EXCEPT !.prompts[g] = @ + Len(sent.whisper)]
                  /\ sent.whisper # << >> => Room(tasks)
                  /\ tasks' = IF sent.whisper = << >> THEN tasks
                              ELSE With(tasks, Whisper(g))
         ELSE /\ morale' = changed
              /\ UNCHANGED tasks
  /\ UNCHANGED <<dataVars, guardVars, finalized, maxTasks, userIsGM, collection, manual, opsLeft, ev>>

\* History: an auto-prompt for group g has been published while the group
\* is in _promptedGroups for a prompt.
Published(mo, g) ==
  IF g \in mo.promptedGroups /\ mo.mark[g].what = "prompted"
  THEN mo.published \cup {g} ELSE mo.published

\* ChatMessage.create of an auto-prompt resolves and sendAutoPrompt returns
\* to the handler.
PromptPublished(f) ==
  /\ f.kind = "prompt" /\ f.pc = "whisper"
  /\ tasks' = Without(f)
  /\ morale' = [morale EXCEPT !.published = Published(morale, f.g)]
  /\ UNCHANGED <<dataVars, guardVars, finalized, maxTasks, userIsGM, collection, manual, opsLeft,
                 ev>>

\* ChatMessage.create of an auto-prompt is rejected: so are sendAutoPrompt
\* and the handler awaiting it, and _promptedGroups stays as it is.
PromptRejected(f) ==
  /\ f.kind = "prompt" /\ f.pc = "whisper"
  /\ tasks' = Without(f)
  /\ UNCHANGED <<dataVars, guardVars, finalized, maxTasks, userIsGM, collection, manual, opsLeft,
                 morale, ev>>

\* The members of group g among the combatants.
GroupMembers(mo, g) ==
  {i \in DOMAIN mo.combatants : mo.combatants[i].groupId = g}

\* A starting size of 0 counts as not recorded.
Recorded_truthy(startingSize) == startingSize # Null /\ startingSize[1] # 0

\* groupData.startingSize != null.
Recorded(startingSize) == startingSize # Null

\* recordStartingSizes over the stored groups grp: the starting sizes after
\* the call.
recordStartingSizes(mo, grp) ==
  [g \in GroupIds |->
     IF ~grp[g].exists \/ Recorded(mo.startingSize[g]) THEN mo.startingSize[g]
     ELSE <<Cardinality(GroupMembers(mo, g))>>]

\* The combat starts (round 1): recordStartingSizes.  Its writes, one per
\* group, are taken together.
RecordStartingSizes ==
  /\ morale.enabled
  /\ morale' =
       [morale EXCEPT
          !.startingSize = recordStartingSizes(morale, groups),
          !.kept = @ \cup {g \in GroupIds :
                             /\ groups[g].exists
                             /\ morale.startingSize[g] # Null
                             /\ morale.startingSize[g][1] #
                                  Cardinality(GroupMembers(morale, g))}]
  /\ UNCHANGED engineVars

\* A combatant is dropped on the row of group g, which has no initiative.
AssignToGroup(i, g) ==
  /\ groups[g].exists /\ groups[g].initiative = Null
  /\ groupId[i] # g
  /\ groupId' = [groupId EXCEPT ![i] = g]
  /\ morale' = [morale EXCEPT !.combatants[i].groupId = g]
  /\ UNCHANGED <<initiative, sort, actor, groups, guardVars, tasks, finalized,
                 maxTasks, userIsGM, collection, manual, opsLeft, ev>>

\* A grouped combatant is dropped outside the group rows.
Ungroup(i) ==
  /\ groupId[i] # UNGROUPED
  /\ groupId' = [groupId EXCEPT ![i] = UNGROUPED]
  /\ morale' = [morale EXCEPT !.combatants[i].groupId = UNGROUPED]
  /\ groups' = IF \E k \in Members \ {i} : groupId[k] = groupId[i] THEN groups
               ELSE [groups EXCEPT ![groupId[i]].initiative = Null]
  /\ UNCHANGED <<initiative, sort, actor, guardVars, tasks, finalized,
                 maxTasks, userIsGM, collection, manual, opsLeft, ev>>

\* A group is created under a fresh id g from the selected tokens sel,
\* combatants already.
CreateGroup(g, sel) ==
  /\ ~groups[g].exists
  /\ groups' = [groups EXCEPT ![g] = NewGroup(g)]
  /\ groupId' = [m \in Members |-> IF m \in sel THEN g ELSE groupId[m]]
  /\ morale' = [morale EXCEPT !.combatants =
                  [m \in Members |->
                     IF m \in sel THEN [morale.combatants[m] EXCEPT !.groupId = g]
                     ELSE morale.combatants[m]]]
  /\ UNCHANGED <<initiative, sort, actor, guardVars, tasks, finalized,
                 maxTasks, userIsGM, collection, manual, opsLeft, ev>>

\* The indices of the combatants in S, in collection order.
InOrder(mo, S) ==
  SelectSeq([i \in 1 .. Len(mo.combatants) |-> i], LAMBDA i : i \in S)

\* rollMorale up to its first await, for a group whose discipline is or is
\* not Fearless: the call for a Fearless group sends its chat message, the
\* call for a group without living members returns null, and any other
\* call computes the DC and the mob confidence and evaluates its first
\* roll.
rollFor(mo, g, discipline) ==
  LET living == InOrder(mo, getLivingMembers(mo, g))
      casualtyCount == getCasualtyCount(mo, g)
      mobConfidenceDivisor ==
        IF mo.mobConfidenceDivisor[g] # Null THEN mo.mobConfidenceDivisor[g][1]
        ELSE mo.moraleMobConfidenceDivisor
  IN  IF living = << >>
      THEN [NoCall EXCEPT !.g = g, !.pc = "returned", !.result = "null",
                          !.discipline = discipline]
      ELSE [NoCall EXCEPT
              !.g = g, !.pc = "roll", !.living = living,
              !.discipline = discipline,
              !.dc = 10 + casualtyCount,
              !.casualtyPenalty = casualtyCount,
              !.mobConfidence = getMobConfidence(Len(living), mobConfidenceDivisor),
              !.mobConfidenceDivisor = mobConfidenceDivisor]

\* A Fearless group is rolled for as any other.
rollMorale_rolls(mo, g, fearless) ==
  rollFor(mo, g, IF fearless THEN "Fearless" ELSE "Standard")

rollMorale(mo, g, fearless) ==
  IF fearless
  THEN [NoCall EXCEPT !.g = g, !.pc = "fearlessChat", !.discipline = "Fearless"]
  ELSE rollFor(mo, g, "Standard")

\* rollMorale(g) is called by the GM.  One call is in flight at a time.
RollMoraleStart(g, fearless) ==
  /\ morale.rolling = {}
  /\ morale' = [morale EXCEPT !.rolling = {g},
                              !.call = rollMorale(morale, g, fearless)]
  /\ UNCHANGED engineVars

\* The call goes on after the living member it was at: with the next one,
\* or with the chat card after the last.
NextMember(call) ==
  IF Len(call.passed) + Len(call.failed) = Len(call.living)
  THEN [call EXCEPT !.pc = "chat"] ELSE [call EXCEPT !.pc = "roll"]

\* passed: roll.total >= dc.
Passed(rollTotal, dc) == rollTotal >= dc

\* roll.evaluate() of the living member the loop is at resolves, the die
\* showing rawRoll: the entry goes to the passed list, or to the failed
\* list, and then applyMoraleEffect is called.  The wisdom modifier and the
\* challenge rating of every actor are 0.
RollMoraleOne(rawRoll) ==
  /\ morale.call.pc = "roll"
  /\ LET call == morale.call
         c == call.living[Len(call.passed) + Len(call.failed) + 1]
         totalMod == 0 + 0 + call.mobConfidence
         entry == [combatant |-> c, rollTotal |-> rawRoll + totalMod]
     IN  morale' =
           [morale EXCEPT !.call =
              IF Passed(entry.rollTotal, call.dc)
              THEN NextMember([call EXCEPT !.passed = Append(@, entry)])
              ELSE [call EXCEPT !.failed = Append(@, entry), !.pc = "effect"]]
  /\ UNCHANGED engineVars

\* applyMoraleEffect on combatant c: it returns at once when the combatant
\* has no token; else the status effect is put on the token actor, or the
\* request is rejected (ok = FALSE) and the error is logged.
applyMoraleEffect(c, ok) ==
  IF ~c.token THEN c
  ELSE IF ok THEN [c EXCEPT !.effect = TRUE]
  ELSE c

\* A rejected effect request reaches the caller of applyMoraleEffect.
EffectThrows_uncaught(c, ok) == c.token /\ ~ok

\* Whether applyMoraleEffect throws: never, the catch block that encloses
\* the effect request logs the error.
EffectThrows(c, ok) == FALSE

\* The await of applyMoraleEffect for the member that has just failed ends.
ApplyMoraleEffect(ok) ==
  /\ morale.call.pc = "effect"
  /\ LET call == morale.call
         c == call.failed[Len(call.failed)].combatant
         after == applyMoraleEffect(morale.combatants[c], ok)
     IN  morale' =
           [morale EXCEPT
              !.combatants[c] = after,
              !.call =
                 IF EffectThrows(morale.combatants[c], ok)
                 THEN [call EXCEPT !.pc = "returned", !.result = "rejected"]
                 ELSE NextMember(
                        IF after.effect THEN [call EXCEPT !.applied = Append(@, c)]
                        ELSE call)]
  /\ UNCHANGED engineVars

\* sendMoraleChat has settled (a rejection of the chat card is caught
\* inside it): the group is added to _promptedGroups and the results are
\* returned.
RollMoraleDone(g) ==
  /\ g \in morale.rolling
  /\ morale.call.pc = "chat"
  /\ morale' = [morale EXCEPT !.call.pc = "returned",
                              !.call.result = "results",
                              !.promptedGroups = MarkPrompted(@, g),
                              !.mark = Marked(morale, g, "rolled"),
                              !.published = @ \ {g}]
  /\ UNCHANGED engineVars

\* The chat message of a Fearless group has been created: the call returns
\* {skipped: true}.
RollMoraleSkipped(g) ==
  /\ g \in morale.rolling
  /\ morale.call.pc = "fearlessChat"
  /\ morale' = [morale EXCEPT !.call.pc = "returned",
                              !.call.result = "skipped"]
  /\ UNCHANGED engineVars

\* A roll of rollMorale(g), or the chat message of a Fearless group, is
\* rejected: so is the call.
RollMoraleFail(g) ==
  /\ g \in morale.rolling
  /\ morale.call.pc \in {"roll", "fearlessChat"}
  /\ morale' = [morale EXCEPT !.call.pc = "returned",
                              !.call.result = "rejected"]
  /\ UNCHANGED engineVars

\* The caller of rollMorale(g) (the click handler of the morale button)
\* resumes with what the call returned.
RollMoraleReturned(g) ==
  /\ g \in morale.rolling
  /\ morale.call.pc = "returned"
  /\ morale' = [morale EXCEPT !.rolling = {}, !.call = NoCall]
  /\ UNCHANGED engineVars

resetPromptForGroup(g) ==
  /\ g \in morale.promptedGroups
  /\ morale' = [morale EXCEPT !.promptedGroups = @ \ {g},
                              !.mark = Released(morale, {g}),
                              !.prompts[g] = 0,
                              !.published = @ \ {g}]
  /\ UNCHANGED engineVars

\* A combat is deleted: clearPromptedGroups.
clearPromptedGroups ==
  /\ morale.promptedGroups # {}
  /\ morale' = [morale EXCEPT !.promptedGroups = {},
                              !.mark = Released(morale, GroupIds),
                              !.prompts = [g \in GroupIds |-> 0],
                              !.published = {}]
  /\ UNCHANGED engineVars

\* The GM changes the setting moraleAutoPromptThreshold.
SetThreshold(t) ==
  /\ t # morale.threshold
  /\ morale' = [morale EXCEPT !.threshold = t]
  /\ UNCHANGED engineVars

(* ------------------------------ authority ---------------------------- *)
\* Every client counts as a GM's.
isGM_anyone == TRUE

\* isGM(): game.user.isGM.
isGM == userIsGM

\* An operation returns at its isGM() check, before it has read or written
\* anything.
Denied(op, g) ==
  /\ ev' = Event("denied", g, op, IdleTask, << >>)
  /\ UNCHANGED <<dataVars, guardVars, tasks, finalized, manual, opsLeft, envVars>>

\* rollGroupAndApplyInitiative(combat, g) is called on this client.
CallRollGroup(g) ==
  IF isGM THEN RollStart(g) ELSE Denied("roll", g)

\* finalizeGroupInitiative(combat, g) is called on this client.  It has no
\* check of its own: when it gets as far as _applyGroupOrder, that call
\* returns at its check and the mutex, taken before it, is released.
CallFinalize(g) ==
  IF isGM THEN ApiFinalize(g)
  ELSE LET o == FinalizeOutcome(initiative, mutex, g, FALSE)
       IN  IF o = "run" THEN Denied("applyGroupOrder", g)
           ELSE /\ ev' = Event(IF o = "noop" THEN "finalizeNoop"
                               ELSE "finalizeDropped", g, "api", IdleTask, << >>)
                /\ UNCHANGED <<dataVars, guardVars, tasks, finalized, manual,
                               opsLeft, envVars>>

\* deleteGroup(combat, g) is called on this client: the check comes before
\* the confirmation dialog.
CallDeleteGroup(g) ==
  IF isGM THEN \E confirmed \in BOOLEAN : DeleteGroup(g, confirmed)
  ELSE Denied("delete", g)

\* rollMorale(combat, g) is called on this client.
CallRollMorale(g) ==
  IF isGM THEN \E fearless \in BOOLEAN : RollMoraleStart(g, fearless)
  ELSE Denied("rollMorale", g)

\* The round becomes 1 on this client: recordStartingSizes.
CallRecordStartingSizes ==
  IF isGM THEN RecordStartingSizes
  ELSE Denied("recordStartingSizes", UNGROUPED)

\* A change of the initiative of combatant m, made from a GM's client,
\* arrives at this client, a player's.  The updateCombatant handler runs
\* and may call finalizeGroupInitiative, which ends as in CallFinalize.
RemoteChange(m, v) ==
  /\ ~userIsGM
  /\ initiative[m] # v
  /\ initiative' = [initiative EXCEPT ![m] = v]
  /\ ev' = Event("remote", groupId[m], "hook", IdleTask, << >>)
  /\ UNCHANGED <<sort, groupId, actor, groups, guardVars, tasks, finalized,
                 manual, opsLeft, envVars>>

(* ------------------------------ behaviours ---------------------------- *)
\* The combatants were created in the order of their ids.
InOrderOfIds == [i \in 1 .. NumMembers |-> i]

\* Every group is stored; nothing is rolled, no call is in flight.
InitState ==
  /\ initiative = [m \in Members |-> Null]
  /\ sort = [m \in Members |-> 0]
  /\ groups = [h \in GroupIds |-> NewGroup(h)]
  /\ skipFinalize = [h \in GroupIds |-> FALSE]
  /\ mutex = FALSE
  /\ bulkRollInProgress = FALSE
  /\ groupInitiativeProcessed = FALSE
  /\ tasks = EmptyBag
  /\ finalized = [h \in GroupIds |-> FALSE]
  /\ manual = [h \in GroupIds |-> Null]
  /\ opsLeft = MaxOps
  /\ ev = NoEv

InitData == collection = InOrderOfIds /\ InitState

\* The client is a GM's.
InitCommon == userIsGM = TRUE /\ InitData

\* A call inside _applyGroupOrder resumes.
FrameStep(f) ==
  \/ CommitMemberWrite(f)
  \/ CommitGroupWrite(f)
  \/ ClearSkipFlag(f)
  \/ Summary(f)

\* A rollGroupAndApplyInitiative call resumes.
RollStep(f) ==
  \/ RollSetSkip(f)
  \/ RollWrite(f)

\* A wrapperCallback call resumes.
BulkStep(f) ==
  \/ BulkWrappedReturn(f)
  \/ BulkDelayDone(f)
  \/ BulkTimer(f)

\* The dexterity of the combatants: the members of agile have score 14
\* (modifier +2), the others score 10 (modifier 0).
InitActor(agile) ==
  [m \in Members |-> IF m \in agile THEN [value |-> 14, mod |-> 2]
                     ELSE [value |-> 10, mod |-> 0]]

\* The engine with calls overlapping at their awaits: every entry point,
\* one initiative value, equal dexterity.
ConcInits == {Scale}
\* Combatant 2 is alone in group 2, combatant 3 is ungrouped and all the
\* others are in group 1; the further groups are stored without members.
ConcGroupOf(m) == IF m = 2 THEN 2 ELSE IF m = 3 THEN UNGROUPED ELSE 1

Init ==
  /\ InitCommon
  /\ groupId = [m \in Members |-> ConcGroupOf(m)]
  /\ actor = InitActor({})
  /\ maxTasks = MaxTasks
  /\ morale = MoraleOff

Next ==
  \/ \E m \in Members, x \in ConcInits : SetInitiative(m, <<x>>)
  \/ \E g \in GroupIds : ApiFinalize(g)
  \/ \E g \in GroupIds : RollStart(g)
  \/ BulkStart
  \/ \E f \in Busy : FrameStep(f) \/ RollStep(f) \/ BulkStep(f)
  \/ \E f \in Busy, x \in ConcInits : RollOne(f, x)
  \/ \E f \in Busy, x \in ConcInits :
       BulkWrappedWrite(f, [m \in Members |-> x])

Spec == Init /\ [][Next]_vars

\* The engine with one operation at a time (inline edits, direct finalize
\* calls and group rolls) over varied initiatives; the last member of
\* group 1 is or is not more dexterous than the others.
\* Combatant m starts in group m % NumGroups, 0 being ungrouped; the last
\* group is stored but has no member.
SeqGroupOf(m) == m % NumGroups
Grouped == {m \in Members : SeqGroupOf(m) # UNGROUPED}
LastOfGroup(g) ==
  CHOOSE m \in Members :
    SeqGroupOf(m) = g /\ \A k \in Members : SeqGroupOf(k) = g => k <= m

InitSeq ==
  /\ InitCommon
  /\ groupId = [m \in Members |-> SeqGroupOf(m)]
  /\ actor \in {InitActor({}), InitActor({LastOfGroup(1)})}
  /\ maxTasks = 1
  /\ morale = MoraleOff

NextSeq ==
  \/ \E m \in Grouped, x \in RawInits : SetInitiative(m, <<x>>)
  \/ \E g \in GroupIds : ApiFinalize(g)
  \/ \E g \in GroupIds : RollStart(g)
  \/ \E f \in Busy : FrameStep(f) \/ RollStep(f)
  \/ \E f \in Busy, x \in RawInits : RollOne(f, x)

SpecSeq == InitSeq /\ [][NextSeq]_vars

\* The engine with one operation at a time and room for two more: two
\* groups are ordered one after the other by inline edits or direct calls
\* (a group is ordered once each of its members has an initiative), then
\* one of them is edited and ordered again.
RankOps == MaxOps + 2

InitRank ==
  /\ userIsGM = TRUE
  /\ collection = InOrderOfIds
  /\ initiative = [m \in Members |-> Null]
  /\ sort = [m \in Members |-> 0]
  /\ groups = [h \in GroupIds |-> NewGroup(h)]
  /\ skipFinalize = [h \in GroupIds |-> FALSE]
  /\ mutex = FALSE
  /\ bulkRollInProgress = FALSE
  /\ groupInitiativeProcessed = FALSE
  /\ tasks = EmptyBag
  /\ finalized = [h \in GroupIds |-> FALSE]
  /\ manual = [h \in GroupIds |-> Null]
  /\ opsLeft = RankOps
  /\ ev = NoEv
  /\ groupId = [m \in Members |-> SeqGroupOf(m)]
  /\ actor = InitActor({})
  /\ maxTasks = 1
  /\ morale = MoraleOff

NextRank ==
  \/ \E m \in Grouped, x \in RawInits : SetInitiative(m, <<x>>)
  \/ \E g \in GroupIds : ApiFinalize(g)
  \/ \E f \in Busy : FrameStep(f)

SpecRank == InitRank /\ [][NextRank]_vars

\* The engine with one operation at a time over a collection whose order is
\* any order of the combatants: ids are random strings, the collection keeps
\* the combatants in the order of their creation.
Orders ==
  {o \in [1 .. NumMembers -> Members] : \A m \in Members : \E i \in 1 .. NumMembers : o[i] = m}

InitOrder ==
  /\ userIsGM = TRUE
  /\ collection \in Orders
  /\ InitState
  /\ groupId = [m \in Members |-> SeqGroupOf(m)]
  /\ actor = InitActor({})
  /\ maxTasks = 1
  /\ morale = MoraleOff

NextOrder ==
  \/ \E m \in Grouped, x \in RawInits : SetInitiative(m, <<x>>)
  \/ \E g \in GroupIds : ApiFinalize(g)
  \/ \E f \in Busy : FrameStep(f)

SpecOrder == InitOrder /\ [][NextOrder]_vars

\* Inline edits and direct calls that overlap at their awaits, each of the
\* first two combatants alone in its group and the others ungrouped: an
\* edit of one group arrives while the other group is being ordered.
SoloGroupOf(m) == IF m \in GroupIds /\ m < NumGroups THEN m ELSE UNGROUPED

InitSolo ==
  /\ InitCommon
  /\ groupId = [m \in Members |-> SoloGroupOf(m)]
  /\ actor = InitActor({})
  /\ maxTasks = MaxTasks
  /\ morale = MoraleOff

NextSolo ==
  \/ \E m \in Members, x \in RawInits : SetInitiative(m, <<x>>)
  \/ \E g \in GroupIds : ApiFinalize(g)
  \/ \E f \in Busy : FrameStep(f)

SpecSolo == InitSolo /\ [][NextSolo]_vars

\* The same with every call in flight resumed sooner or later: the host
\* answers each request.
SpecSettle ==
  SpecSolo /\ WF_vars(\E f \in Busy : FrameStep(f))

\* Deletions of groups beside the calls that order them: inline edits,
\* direct calls, group rolls and deleteGroup overlap at their awaits.
NextDelete ==
  \/ \E m \in Members, x \in ConcInits : SetInitiative(m, <<x>>)
  \/ \E g \in GroupIds : ApiFinalize(g)
  \/ \E g \in GroupIds : RollStart(g)
  \/ \E g \in GroupIds, confirmed \in BOOLEAN : DeleteGroup(g, confirmed)
  \/ \E f \in Busy : FrameStep(f) \/ RollStep(f) \/ DeleteStep(f)
  \/ \E f \in Busy, x \in ConcInits : RollOne(f, x)

SpecDelete == Init /\ [][NextDelete]_vars

\* The group menu with one operation started at a time: inline edits,
\* direct finalize calls, the Set Group Initiative entry, resets and
\* deletions; the handler's own finalize call runs beside the operation that
\* raised it.
BaseInits == {Scale \div 2, MaxInit * Scale}
Quiet == tasks = EmptyBag

InitOverride ==
  /\ InitCommon
  /\ groupId = [m \in Members |-> SeqGroupOf(m)]
  /\ actor = InitActor({})
  /\ maxTasks = 2
  /\ morale = MoraleOff

NextOverride ==
  \/ Quiet /\ \E m \in Grouped, x \in RawInits : SetInitiative(m, <<x>>)
  \/ Quiet /\ \E g \in GroupIds : ApiFinalize(g)
  \/ Quiet /\ \E g \in GroupIds, x \in BaseInits : SetGroupInitiative(g, x)
  \/ Quiet /\ \E g \in GroupIds : ResetGroupInitiative(g)
  \/ Quiet /\ \E g \in GroupIds, confirmed \in BOOLEAN : DeleteGroup(g, confirmed)
  \/ \E f \in Busy : FrameStep(f) \/ OverrideStep(f) \/ ResetStep(f) \/ DeleteStep(f)

SpecOverride == InitOverride /\ [][NextOverride]_vars

\* The engine with one operation at a time and requests that may be
\* rejected: a roll, the write of the rolls, the two writes of the ordering
\* step, the wrapped host operation.  The requests that remove a skip flag
\* are taken to succeed.
InitFail ==
  /\ InitCommon
  /\ groupId = [m \in Members |-> ConcGroupOf(m)]
  /\ actor = InitActor({})
  /\ maxTasks = 1
  /\ morale = MoraleOff

NextFail ==
  \/ \E m \in Members, x \in ConcInits : SetInitiative(m, <<x>>)
  \/ \E g \in GroupIds : ApiFinalize(g)
  \/ \E g \in GroupIds : RollStart(g)
  \/ BulkStart
  \/ \E f \in Busy : FrameStep(f) \/ RollStep(f) \/ BulkStep(f) \/ FailStep(f)
  \/ \E f \in Busy, x \in ConcInits : RollOne(f, x)
  \/ \E f \in Busy, x \in ConcInits :
       BulkWrappedWrite(f, [m \in Members |-> x])

SpecFail == InitFail /\ [][NextFail]_vars

\* The morale subsystem alone, one operation at a time: hit points change
\* (an ungrouped combatant falls), the combat starts, groups are rolled for,
\* marks are reset or cleared, the threshold is changed.  The engine is
\* idle.
MoraleThresholds == {0, 50}
\* Hit points: none, zero, some.
HpValues == {Null, <<0>>, <<1>>}

InitMorale ==
  /\ InitCommon
  /\ groupId = [m \in Members |-> SeqGroupOf(m)]
  /\ actor = InitActor({})
  /\ maxTasks = 1
  /\ \E e \in BOOLEAN, t \in MoraleThresholds :
       morale = [MoraleOff EXCEPT
                   !.enabled = e, !.threshold = t,
                   !.combatants = [m \in Members |-> Standing(SeqGroupOf(m))]]

\* The die face that passes every morale check of these behaviours.
NaturalTwenty == 20
\* No starting size is recorded yet.
FirstStart == \E g \in GroupIds : morale.startingSize[g] = Null
\* No whisper and no morale roll is in flight.
Calm == Quiet /\ morale.rolling = {}
\* A rollMorale call resumes at its chat message or returns to its caller.
RollMoraleStep(g) ==
  \/ RollMoraleDone(g)
  \/ RollMoraleSkipped(g)
  \/ RollMoraleFail(g)
  \/ RollMoraleReturned(g)

NextMorale ==
  \/ Calm /\ \E m \in Grouped, hp \in HpValues : UpdateActor(m, hp)
  \/ Calm /\ \E m \in Members \ Grouped : UpdateActor(m, <<0>>)
  \/ Calm /\ FirstStart /\ RecordStartingSizes
  \/ Calm /\ \E g \in GroupIds, fearless \in BOOLEAN : RollMoraleStart(g, fearless)
  \/ RollMoraleOne(NaturalTwenty)
  \/ \E g \in GroupIds : RollMoraleStep(g)
  \/ Calm /\ \E g \in GroupIds : resetPromptForGroup(g)
  \/ Calm /\ clearPromptedGroups
  \/ Calm /\ \E t \in MoraleThresholds : SetThreshold(t)
  \/ \E f \in Busy : PromptPublished(f)

SpecMorale == InitMorale /\ [][NextMorale]_vars

\* shouldAutoPrompt over crowds: the combat starts with size combatants in
\* group 1, all standing, and they fall one by one.
Crowd(size, threshold) ==
  [MoraleOff EXCEPT
     !.enabled = TRUE, !.threshold = threshold,
     !.startingSize = [g \in GroupIds |-> IF g = 1 THEN <<size>> ELSE Null],
     !.combatants = [i \in 1 .. size |-> Standing(1)]]

InitCrowd ==
  /\ InitCommon
  /\ groupId = [m \in Members |-> SeqGroupOf(m)]
  /\ actor = InitActor({})
  /\ maxTasks = 1
  /\ \E size \in CrowdSizes, t \in Thresholds : morale = Crowd(size, t)

NextCrowd ==
  \/ LET standing == Cardinality(getLivingMembers(morale, 1))
     IN  standing > 0 /\ UpdateActor(standing, <<0>>)
  \/ \E f \in Busy : PromptPublished(f)

SpecCrowd == InitCrowd /\ [][NextCrowd]_vars

\* The auto-prompt with whispers in flight: hit points change while earlier
\* prompts are still being published, the combat starts, groups are rolled
\* for, marks are reset or cleared.
PromptHp == {<<0>>, <<1>>}

InitPrompt ==
  /\ InitCommon
  /\ groupId = [m \in Members |-> SeqGroupOf(m)]
  /\ actor = InitActor({})
  /\ maxTasks = MaxTasks
  /\ morale = [MoraleOff EXCEPT
                 !.enabled = TRUE, !.threshold = 50,
                 !.combatants = [m \in Members |-> Standing(SeqGroupOf(m))]]

NextPrompt ==
  \/ \E m \in Grouped, hp \in PromptHp : UpdateActor(m, hp)
  \/ FirstStart /\ RecordStartingSizes
  \/ Quiet /\ \E g \in GroupIds : RollMoraleStart(g, FALSE)
  \/ RollMoraleOne(NaturalTwenty)
  \/ \E g \in GroupIds : RollMoraleDone(g) \/ RollMoraleReturned(g)
  \/ \E g \in GroupIds : resetPromptForGroup(g)
  \/ clearPromptedGroups
  \/ \E f \in Busy : PromptPublished(f)

SpecPrompt == InitPrompt /\ [][NextPrompt]_vars

\* The same, the whisper of a prompt being created or rejected.
NextPublish ==
  \/ NextPrompt
  \/ \E f \in Busy : PromptRejected(f)

SpecPublish == InitPrompt /\ [][NextPublish]_vars

\* A morale roll for a squad: every combatant is in group 1, standing or
\* down, combatant 1 with or without a token; members of the group have or
\* have not been deleted, and the group overrides the divisor or does not.
\* The d20 shows one of two faces, the status effect is put on the actor or
\* the request is rejected.
RollHp == {<<0>>, <<1>>}
DeletedCounts == {0, 1, 2}
DivisorOverrides == {Null, <<2>>}
RollFaces == {9, 12}

InitRoll ==
  /\ InitCommon
  /\ groupId = [m \in Members |-> 1]
  /\ actor = InitActor({})
  /\ maxTasks = 1
  /\ \E hps \in [Members -> RollHp], tok \in BOOLEAN,
        d \in DeletedCounts, o \in DivisorOverrides :
       morale = [MoraleOff EXCEPT
                   !.enabled = TRUE,
                   !.combatants =
                     [m \in Members |->
                        [Standing(1) EXCEPT !.hp = hps[m],
                                            !.token = (m # 1) \/ tok]],
                   !.deletedCount[1] = d,
                   !.mobConfidenceDivisor[1] = o]

NextRoll ==
  \/ \E fearless \in BOOLEAN : RollMoraleStart(1, fearless)
  \/ \E rawRoll \in RollFaces : RollMoraleOne(rawRoll)
  \/ \E ok \in BOOLEAN : ApplyMoraleEffect(ok)
  \/ RollMoraleStep(1)
  \/ Calm /\ resetPromptForGroup(1)

SpecRoll == InitRoll /\ [][NextRoll]_vars

\* The start of combat, again and again, while the groups change: group 1
\* is stored, group 2 is created later, two of the combatants are moved
\* between the groups and out of them.
StartGroups == {1, 2}
StartMovers == {1, 2}

InitStart ==
  /\ userIsGM = TRUE
  /\ collection = InOrderOfIds
  /\ initiative = [m \in Members |-> Null]
  /\ sort = [m \in Members |-> 0]
  /\ groups = [h \in GroupIds |-> IF h = 1 THEN NewGroup(h) ELSE NoGroup]
  /\ skipFinalize = [h \in GroupIds |-> FALSE]
  /\ mutex = FALSE
  /\ bulkRollInProgress = FALSE
  /\ groupInitiativeProcessed = FALSE
  /\ tasks = EmptyBag
  /\ finalized = [h \in GroupIds |-> FALSE]
  /\ manual = [h \in GroupIds |-> Null]
  /\ opsLeft = MaxOps
  /\ ev = NoEv
  /\ groupId = [m \in Members |-> UNGROUPED]
  /\ actor = InitActor({})
  /\ maxTasks = 1
  /\ morale = [MoraleOff EXCEPT
                 !.enabled = TRUE,
                 !.combatants = [m \in Members |-> Standing(UNGROUPED)]]

NextStart ==
  \/ RecordStartingSizes
  \/ \E i \in StartMovers, g \in StartGroups : AssignToGroup(i, g)
  \/ \E i \in StartMovers : Ungroup(i)
  \/ \E sel \in SUBSET StartMovers : CreateGroup(2, sel)

SpecStart == InitStart /\ [][NextStart]_vars

\* The client of a player: the privileged operations are called on it,
\* while the initiatives change from the GM's client.
RemoteInits == {Null} \cup {<<r>> : r \in RawInits}

InitPlayer ==
  /\ userIsGM = FALSE
  /\ InitData
  /\ groupId = [m \in Members |-> SeqGroupOf(m)]
  /\ actor = InitActor({})
  /\ maxTasks = 1
  /\ morale = [MoraleOff EXCEPT
                 !.enabled = TRUE,
                 !.combatants = [m \in Members |-> Standing(SeqGroupOf(m))]]

NextPlayer ==
  \/ \E m \in Members, v \in RemoteInits : RemoteChange(m, v)
  \/ \E g \in GroupIds : CallRollGroup(g)
  \/ \E g \in GroupIds : CallFinalize(g)
  \/ \E g \in GroupIds : CallDeleteGroup(g)
  \/ \E g \in GroupIds : CallRollMorale(g)
  \/ CallRecordStartingSizes

SpecPlayer == InitPlayer /\ [][NextPlayer]_vars

TypeOK ==
  /\ mutex \in BOOLEAN /\ bulkRollInProgress \in BOOLEAN
  /\ \A m \in Members : Len(initiative[m]) <= 1
  /\ IsABag(tasks) /\ BagCardinality(tasks) <= maxTasks

(* ======================== properties ================================== *)
\* The initiatives a frame averaged, summed.
FrameSum(f) == SumSeq([i \in 1 .. Len(f.list) |-> f.list[i].init])
\* finalizeGroupInitiative has just persisted the aggregate of group ev.g.
AggregatePersisted == ev.kind = "commitGroup" /\ ev.via # "roll"

\* C1 (as claimed): the aggregate finalize() persists is the mean of the
\* member initiatives rounded to the nearest integer, a half going away
\* from zero, also when the mean is negative.
C1_RoundHalfAwayFromZero ==
  AggregatePersisted =>
    LET n == Len(ev.frame.list)
        s == FrameSum(ev.frame)
        a == groups[ev.g].initiative[1]
    IN /\ n >= 1 /\ a % Scale = 0
       /\ IF s >= 0
          THEN (2 * a - Scale) * n <= 2 * s /\ 2 * s < (2 * a + Scale) * n
          ELSE (2 * a - Scale) * n < 2 * s /\ 2 * s <= (2 * a + Scale) * n

\* C1 (amended): the aggregate finalize() persists is the mean of the member
\* initiatives rounded to the nearest integer, a half going up (towards
\* positive infinity): a - 1/2 <= mean < a + 1/2.
C1_RoundHalfUp ==
  AggregatePersisted =>
    LET n == Len(ev.frame.list)
        s == FrameSum(ev.frame)
        a == groups[ev.g].initiative[1]
    IN /\ n >= 1 /\ a % Scale = 0
       /\ (2 * a - Scale) * n <= 2 * s /\ 2 * s < (2 * a + Scale) * n

\* A negative mean that falls exactly on a half has been persisted.
C1_Witness ==
  /\ AggregatePersisted
  /\ FrameSum(ev.frame) < 0
  /\ 2 * FrameSum(ev.frame)
       = (2 * groups[ev.g].initiative[1] - Scale) * Len(ev.frame.list)

\* A call is inside the averaging/ordering body: between the issue of its
\* writes and the return of _applyGroupOrder.
InFinalizeBody(c) == c.pc \in {"persist", "clearSkip", "summary"}
\* The notifications of step e for which the updateCombatant handler called
\* finalizeGroupInitiative.
HookCalls(e) == {i \in DOMAIN e.hooks : e.hooks[i].decision = "finalize"}
Range(sq) == {sq[i] : i \in 1 .. Len(sq)}

\* C2 (as claimed): in every reachable state at most one averaging/ordering
\* body is executing, whatever started it (notification, direct call, the
\* bulk-roll wrapper with bypassMutex, an explicit group roll).
C2_AtMostOneFinalizeBody ==
  /\ Cardinality({c \in Busy : InFinalizeBody(c)}) <= 1
  /\ \A c \in Busy : InFinalizeBody(c) => CopiesIn(c, tasks) = 1

\* C3: while _bulkRollInProgress is held no notification makes the handler
\* call finalizeGroupInitiative, and a wrapper invocation that took the flag
\* has, when it ends, called finalizeGroupInitiative exactly once for every
\* key of the group index other than UNGROUPED, and never for UNGROUPED.
C3_BulkFinalizesOncePerGroup ==
  [][/\ HookCalls(ev') # {} => ~bulkRollInProgress
     /\ ev'.kind = "bulkDone" =>
          /\ ev'.frame.counts[UNGROUPED] = 0
          /\ \A h \in GroupIds :
               ev'.frame.counts[h]
                 = IF h \in Range(ev'.frame.index) THEN 1 ELSE 0]_vars

\* A wrapper invocation has ended after finalizing a group of several
\* members, each of which raised a notification while the flag was held.
C3_Witness ==
  /\ ev.kind = "bulkDone"
  /\ \E h \in GroupIds :
       /\ Cardinality(MembersOf(groupId, h)) >= 2
       /\ finalized[h]
       /\ ev.frame.counts[h] = 1

\* C4: while the skipFinalize flag of a group is set, no notification for a
\* member of that group makes the handler call finalizeGroupInitiative.
C4_SkipFlagBlocksHook ==
  [][\A i \in HookCalls(ev') : ~skipFinalize[ev'.hooks[i].g]]_vars

\* The notification of a rolled member was dropped at the skip flag while
\* the group roll was still in flight.
C4_Witness ==
  \E i \in DOMAIN ev.hooks :
    /\ ev.hooks[i].decision = "skip"
    /\ \E c \in Busy : c.kind = "roll" /\ c.g = ev.hooks[i].g

\* C5 (as claimed): when rollGroupAndApplyInitiative ends, the ordering step
\* has run over every member of the group: the persisted aggregate is the
\* rounded mean over all members and every member holds a value encoded
\* from it.
C5_RollCoversAllMembers ==
  ev.kind = "rollDone" =>
    /\ {ev.frame.list[i].id : i \in 1 .. Len(ev.frame.list)}
         = MembersOf(groupId, ev.g)
    /\ \A m \in MembersOf(groupId, ev.g) :
         \E i \in 1 .. Len(ev.frame.updates) :
           /\ ev.frame.updates[i].id = m
           /\ initiative[m] = <<ev.frame.updates[i].initiative>>

\* finalizeGroupInitiative has just returned from a completed ordering step.
FinalizeReturned == ev.kind = "finalizeDone"

\* C6: after finalizeGroupInitiative succeeds, a member that came before
\* another by (initiative descending, dexterity score descending) holds the
\* strictly greater encoded value, and no two members hold the same value.
C6_IntraGroupOrder ==
  FinalizeReturned =>
    LET l == ev.frame.list IN
    \A i, j \in 1 .. Len(l) :
      /\ (l[i].init > l[j].init \/ (l[i].init = l[j].init /\ l[i].dex > l[j].dex))
           => initiative[l[i].id][1] > initiative[l[j].id][1]
      /\ i # j => initiative[l[i].id] # initiative[l[j].id]

\* Two members tied on initiative and separated by dexterity were ordered.
C6_Witness ==
  /\ FinalizeReturned
  /\ \E i, j \in 1 .. Len(ev.frame.list) :
       /\ ev.frame.list[i].init = ev.frame.list[j].init
       /\ ev.frame.list[i].dex > ev.frame.list[j].dex

\* C7: of two finalized groups with different aggregates, every member of
\* the one with the higher aggregate holds an encoded value strictly greater
\* than every member of the other.
C7_HigherAggregateAbove ==
  \A g, h \in GroupIds :
    (/\ finalized[g] /\ finalized[h]
     /\ groups[g].initiative[1] > groups[h].initiative[1])
    => \A m \in MembersOf(groupId, g), k \in MembersOf(groupId, h) :
         initiative[m][1] > initiative[k][1]

\* Two finalized groups with different aggregates, the lower one carrying a
\* rank offset.
C7_Witness ==
  \E g, h \in GroupIds :
    /\ finalized[g] /\ finalized[h]
    /\ groups[g].initiative[1] > groups[h].initiative[1]
    /\ \E k \in MembersOf(groupId, h) :
         initiative[k][1] >= groups[h].initiative[1] + GROUP_RANK_OFFSET

\* C8 (as claimed): once the operations have ended, no member of a finalized
\* group holds an encoded value equal to, or between, the encoded values of
\* the members of another finalized group.
C8_GroupsContiguous ==
  Busy = {} =>
    \A g, h \in GroupIds :
      (g # h /\ finalized[g] /\ finalized[h]) =>
        \A k \in MembersOf(groupId, h) :
          \/ \A m \in MembersOf(groupId, g) : initiative[k][1] > initiative[m][1]
          \/ \A m \in MembersOf(groupId, g) : initiative[k][1] < initiative[m][1]

C12_OverrideRebases ==
  [][/\ ev'.kind = "rebaseMembers" =>
          LET f == ev'.frame
              n == Len(f.list)
              sum == SumSeq([i \in 1 .. n |-> f.list[i].init])
          IN /\ {f.list[i].id : i \in 1 .. n} = MembersOf(groupId, f.g)
             /\ \A i \in 1 .. n :
                  /\ f.list[i].init
                       = IF initiative[f.list[i].id] = Null THEN 0
                         ELSE initiative[f.list[i].id][1]
                  /\ initiative'[f.list[i].id] # Null
                  /\ n * (initiative'[f.list[i].id][1] - f.arg[1])
                       = n * f.list[i].init - sum
             /\ \A i, j \in 1 .. n :
                  initiative'[f.list[i].id][1] - initiative'[f.list[j].id][1]
                    = f.list[i].init - f.list[j].init
     /\ ev'.kind = "rebaseGroup" =>
          groups'[ev'.g].initiative = ev'.frame.arg]_vars

\* A group of two members holding different values was re-based onto a
\* value that is not a whole number.
C12_Witness ==
  /\ ev.kind = "rebaseMembers"
  /\ ev.frame.arg[1] % Scale # 0
  /\ \E i, j \in 1 .. Len(ev.frame.list) :
       ev.frame.list[i].init # ev.frame.list[j].init

\* C13 (as claimed): once the Set Group Initiative callback has returned,
\* the aggregate it stored and the member values it wrote stay as they are
\* until the group is next edited, rolled or reset: neither the handler, run
\* for the callback's own member writes, nor a direct finalizeGroupInitiative
\* call overwrites them.
C13_OverridePersists ==
  \A g \in GroupIds :
    (/\ manual[g] # Null
     /\ \A c \in Busy : ~(c.kind = "override" /\ c.g = g))
    => /\ groups[g].initiative = <<manual[g][1].initiative>>
       /\ \A i \in 1 .. Len(manual[g][1].updates) :
            initiative[manual[g][1].updates[i].id]
              = <<manual[g][1].updates[i].initiative>>

\* C14: when resetGroupInitiative(g) returns every member of g has a null
\* initiative and the aggregate of g is null, the group is still stored and
\* no combatant has changed group; the handler, run for the members the
\* reset cleared, returns at the precondition of finalizeGroupInitiative, so
\* that no call is left in flight that would write an aggregate.
C14_ResetClears ==
  [][/\ ev'.kind = "resetDone" =>
          /\ \A m \in MembersOf(groupId', ev'.g) : initiative'[m] = Null
          /\ groups'[ev'.g].initiative = Null
          /\ groups'[ev'.g].exists = groups[ev'.g].exists
          /\ tasks' = EmptyBag
     /\ (\E c \in Busy : c.kind = "reset") =>
          /\ groupId' = groupId
          /\ \A h \in GroupIds : groups'[h].exists = groups[h].exists
          /\ \A i \in HookCalls(ev') : ev'.hooks[i].outcome = "noop"]_vars

\* A reset has returned on a group that had been finalized: its members held
\* encoded values and it had an aggregate.
C14_Witness ==
  /\ ev.kind = "resetDone"
  /\ Len(ev.frame.list) >= 2
  /\ \A i \in 1 .. Len(ev.frame.list) : ev.frame.list[i].init % Scale # 0
  /\ \A m \in MembersOf(groupId, ev.g) : initiative[m] = Null

\* C15: when deleteGroup(g) returns true no combatant has g as its group,
\* every former member is ungrouped, the record of g is gone and g is no
\* key of the group index; the combatants are the same as before, and those
\* of other groups are where they were.  A cancelled call changes nothing.
C15_DeleteUnassigns ==
  [][/\ ev'.kind = "deleteDone" =>
          /\ \A m \in Members : groupId'[m] # ev'.g
          /\ \A i \in 1 .. Len(ev'.frame.list) :
               groupId'[ev'.frame.list[i].id] = UNGROUPED
          /\ ~groups'[ev'.g].exists
          /\ ev'.g \notin Range(GetGroupsKeys')
     /\ (\E c \in Busy : c.kind = "delete") =>
          /\ DOMAIN groupId' = Members /\ DOMAIN initiative' = Members
          /\ \A m \in Members :
               /\ initiative'[m] = initiative[m]
               /\ groupId'[m] # groupId[m]
                    => \E c \in Busy : c.kind = "delete" /\ groupId[m] = c.g
     /\ ev'.kind = "deleteCancelled" =>
          UNCHANGED <<initiative, sort, groupId, groups, tasks>>]_vars

\* A group of two members has been deleted.
C15_Witness ==
  /\ ev.kind = "deleteDone"
  /\ Len(ev.frame.list) >= 2
  /\ \A i \in 1 .. Len(ev.frame.list) : groupId[ev.frame.list[i].id] = UNGROUPED

PersistFailed ==
  /\ ev.kind \in {"finalizeDone", "rollDone"}
  /\ "failed" \in {ev.frame.mW, ev.frame.gW}

\* C17 (as claimed): when the batch write of the member values or the write
\* of the aggregate is rejected inside finalizeGroupInitiative or
\* rollGroupAndApplyInitiative, the call rejects: the failure reaches the
\* caller of the public operation.
C17_FailureReraised ==
  PersistFailed => ev.frame.result = "rejected"

\* C18 (as claimed): the two writes of the persistence step succeed or fail
\* together, so that after a failed step the members do not carry the newly
\* encoded values without the aggregate being written, nor the reverse.
C18_PersistAllOrNothing ==
  PersistFailed =>
    /\ ev.frame.mW = "ok" <=> ev.frame.gW = "ok"
    /\ (\A i \in 1 .. Len(ev.frame.updates) :
          initiative[ev.frame.updates[i].id] = <<ev.frame.updates[i].initiative>>)
         => groups[ev.g].initiative = ev.frame.avgInit

\* A call of rollGroupAndApplyInitiative was entered by this step and found
\* members to roll.
RollEntered(c) ==
  /\ c.kind = "roll" /\ c.pc = "setSkip"
  /\ CopiesIn(c, tasks') > CopiesIn(c, tasks)

\* C11: rollGroupAndApplyInitiative rolls exactly the members of the group
\* whose initiative is null when it is called, and while it runs only those
\* members' initiatives change; a call on a group none of whose members
\* lacks an initiative starts nothing and leaves every member initiative,
\* the skip flag and the aggregate as they were.
C11_RollOnlyUnrolled ==
  [][/\ \A c \in BagToSet(tasks') :
          RollEntered(c) =>
            /\ Range(c.toRoll)
                 = {m \in MembersOf(groupId, c.g) : initiative[m] = Null}
            /\ c.toRoll # << >>
     /\ \A c \in Busy :
          c.kind = "roll" =>
            \A m \in Members :
              initiative'[m] # initiative[m] => m \in Range(c.toRoll)
     /\ \A c \in BagToSet(tasks') :
          c.kind = "roll" =>
            {c.rolled[i].id : i \in 1 .. Len(c.rolled)} \subseteq Range(c.toRoll)
     /\ ev'.kind = "rollNothing" =>
          UNCHANGED <<initiative, sort, skipFinalize, groups, tasks>>]_vars

\* A group roll has ended that left alone a member who held a value when it
\* was called.
C11_Witness ==
  /\ ev.kind = "rollDone"
  /\ \E m \in MembersOf(groupId, ev.g) :
       /\ m \notin Range(ev.frame.toRoll)
       /\ initiative[m] # Null

\* Over the initiatives ini the group has no member, or a member without a
\* finite initiative.
PreconditionFails(ini, g) ==
  \/ MembersOf(groupId, g) = {}
  \/ \E m \in MembersOf(groupId, g) : ini[m] = Null

\* C10: finalizeGroupInitiative on a group with no member, or with a member
\* whose initiative is not finite, changes nothing: a direct call leaves
\* every initiative, sort value, aggregate, call in flight and the mutex as
\* they were; a call by the handler returns at the precondition; and on no
\* path is an ordering step (hence a summary) started for such a group.
C10_PreconditionNoOp ==
  [][/\ (ev'.kind \in {"finalizeStart", "finalizeNoop"}
           /\ PreconditionFails(initiative, ev'.g))
          => /\ ev'.kind = "finalizeNoop"
             /\ UNCHANGED <<initiative, sort, groups, tasks, mutex>>
     /\ \A i \in HookCalls(ev') :
          PreconditionFails(initiative', ev'.hooks[i].g)
            => ev'.hooks[i].outcome = "noop"
     /\ \A c \in BagToSet(tasks') :
          (/\ c.pc = "persist" /\ c.mW = "pending" /\ c.gW = "pending"
           /\ c.via # "roll"
           /\ CopiesIn(c, tasks') > CopiesIn(c, tasks))
          => ~PreconditionFails(initiative', c.g)]_vars

\* A direct call of finalizeGroupInitiative returned at its precondition on
\* a partly rolled group.
C10_Witness ==
  /\ ev.kind = "finalizeNoop"
  /\ \E m \in MembersOf(groupId, ev.g) : initiative[m] = Null
  /\ \E m \in MembersOf(groupId, ev.g) : initiative[m] # Null

\* The number of living members of g meets the threshold share of its
\* starting size, in exact arithmetic.
ThresholdMet(g) ==
  /\ morale.startingSize[g] # Null
  /\ Cardinality(getLivingMembers(morale, g)) <=
       (morale.startingSize[g][1] * morale.threshold) \div 100

\* C19 (as claimed): shouldAutoPrompt(g) is false when the threshold is 0,
\* when g is in the de-duplication set or when g has no recorded starting
\* size; in every other case it is true exactly when the number of living
\* members of g is at most floor(startingSize * threshold / 100).
C19_ShouldAutoPrompt ==
  \A g \in GroupIds :
    shouldAutoPrompt(morale, g) <=>
      /\ morale.threshold # 0
      /\ g \notin morale.promptedGroups
      /\ ThresholdMet(g)

\* C20: from the moment a group is auto-prompted or a morale roll for it
\* completes, shouldAutoPrompt(g) is false in every state, whatever the
\* living count, until resetPromptForGroup(g) or clearPromptedGroups.
C20_PromptedOnce ==
  \A g \in GroupIds :
    morale.mark[g].what \in {"prompted", "rolled"} =>
      ~shouldAutoPrompt(morale, g)
\* A prompted group has lost more members since and still meets the
\* threshold; a released group is due for a prompt again.
C20_Witness ==
  /\ \E g \in GroupIds :
       /\ morale.mark[g].what = "prompted"
       /\ Cardinality(getLivingMembers(morale, g)) < morale.mark[g].living
       /\ morale.threshold > 0 /\ ThresholdMet(g)
  /\ \E h \in GroupIds :
       /\ morale.mark[h].what = "released"
       /\ shouldAutoPrompt(morale, h)

\* C21: however the hit-point notifications interleave, also when several
\* arrive while the whisper of an earlier prompt is still being created, at
\* most one auto-prompt is sent for a group between two removals of the
\* group from _promptedGroups (resetPromptForGroup, clearPromptedGroups).
C21_OnePromptPerGroup ==
  \A g \in GroupIds : morale.prompts[g] <= 1

\* The whisper of a prompt is still being created and the group has lost a
\* further member since, its share of living members meeting the threshold.
C21_Witness ==
  \E g \in GroupIds :
    /\ \E c \in Busy : c.kind = "prompt" /\ c.g = g
    /\ morale.prompts[g] = 1
    /\ morale.mark[g].what = "prompted"
    /\ Cardinality(getLivingMembers(morale, g)) < morale.mark[g].living
    /\ ThresholdMet(g)

\* The combatants of the entries of a result list.
EntryCombatants(list) == {list[i].combatant : i \in 1 .. Len(list)}
\* The members of group g standing, and those at 0 hit points.
LivingOf(g) ==
  {i \in DOMAIN morale.combatants :
     /\ morale.combatants[i].groupId = g
     /\ morale.combatants[i].hp # Null /\ morale.combatants[i].hp[1] > 0}
DownOf(g) ==
  {i \in DOMAIN morale.combatants :
     /\ morale.combatants[i].groupId = g
     /\ morale.combatants[i].hp # Null /\ morale.combatants[i].hp[1] = 0}
\* The divisor in force for group g: its own, or else the setting.
DivisorOf(g) ==
  IF morale.mobConfidenceDivisor[g] # Null THEN morale.mobConfidenceDivisor[g][1]
  ELSE morale.moraleMobConfidenceDivisor

\* C22: no step of a rollMorale call for a Fearless group changes a
\* combatant (hit points, status effect), the call rolls no die and puts
\* the status effect on nobody, and what it returns is the skipped result.
C22_FearlessSkipped ==
  [][(morale.call.discipline = "Fearless" \/ morale'.call.discipline = "Fearless") =>
       /\ morale'.combatants = morale.combatants
       /\ morale'.call.passed = << >> /\ morale'.call.failed = << >>
       /\ morale'.call.applied = << >>
       /\ morale'.call.pc \in {"none", "fearlessChat", "returned"}
       /\ (morale'.call.pc = "returned" /\ morale'.call.result # "rejected"
             => morale'.call.result = "skipped")]_vars
\* A call for a Fearless squad with a standing member has returned.
C22_Witness ==
  /\ morale.call.discipline = "Fearless" /\ morale.call.pc = "returned"
  /\ morale.call.result = "skipped"
  /\ LivingOf(morale.call.g) # {}

C24_HeldOrBroke ==
  morale.call.result = "results" =>
    LET call == morale.call
        held == EntryCombatants(call.passed)
        broke == EntryCombatants(call.failed)
    IN  /\ held \cup broke = LivingOf(call.g) /\ held \cap broke = {}
        /\ Len(call.passed) + Len(call.failed) = Len(call.living)
        /\ \A i \in 1 .. Len(call.passed) : call.passed[i].rollTotal >= call.dc
        /\ \A i \in 1 .. Len(call.failed) : call.failed[i].rollTotal < call.dc
        /\ {call.applied[i] : i \in 1 .. Len(call.applied)} = broke
        /\ \A c \in broke : morale.combatants[c].effect
        /\ call.g \in morale.promptedGroups
\* C25: a step leaves every recorded starting size as it is, and a starting
\* size that a step records is the member count of the group at that step.
C25_StartingSizeWriteOnce ==
  [][\A g \in GroupIds :
       /\ morale.startingSize[g] # Null =>
            morale'.startingSize[g] = morale.startingSize[g]
       /\ morale.startingSize[g] = Null /\ morale'.startingSize[g] # Null =>
            morale'.startingSize[g] = <<Cardinality(GroupMembers(morale, g))>>]_vars
\* A group recorded without members has members now, and a start of combat
\* has found it so; another group was recorded at a later start than it.
C25_Witness ==
  \E g, h \in GroupIds :
    /\ g \in morale.kept /\ morale.startingSize[g] = <<0>>
    /\ GroupMembers(morale, g) # {}
    /\ h # g /\ morale.startingSize[h] # Null /\ morale.startingSize[h] # <<0>>
\* C26: on a client that is not a GM's, a call of rollGroupAndApplyInitiative,
\* finalizeGroupInitiative (whose persistence step _applyGroupOrder makes the
\* check), deleteGroup, rollMorale or recordStartingSizes changes no field
\* of a combatant, no group record, no guard flag and nothing of the morale
\* subsystem (_promptedGroups, starting sizes, hit points, effects), and
\* starts no call: no die is rolled.
C26_DeniedTouchesNothing ==
  [][~userIsGM /\ ev'.kind # "remote" =>
       UNCHANGED <<dataVars, guardVars, tasks, morale>>]_vars
\* A player's client has been denied the roll of a group with a member
\* still to roll.
C26_Witness ==
  /\ ~userIsGM
  /\ ev.kind = "denied" /\ ev.via = "roll"
  /\ ToRoll(ev.g) # << >>
\* C27: a call is at its chat summary only when its member batch write and
\* its aggregate write have both taken effect, and a call of which a write
\* was rejected never gets there: finalizeGroupInitiative returns from the
\* summary when both writes are done and from its catch block otherwise.
C27_SummaryAfterBothWrites ==
  /\ \A f \in Busy :
       f.pc = "summary" => f.mW = "ok" /\ f.gW = "ok" /\ ~f.failed
  /\ \A f \in Busy :
       f.mW = "failed" \/ f.gW = "failed" => f.pc \notin {"clearSkip", "summary"}
  /\ ev.kind = "finalizeDone" =>
       IF ev.frame.mW = "ok" /\ ev.frame.gW = "ok"
       THEN ev.frame.pc = "summary" /\ ~ev.frame.failed
       ELSE ev.frame.pc = "caught" /\ ev.frame.failed
\* finalizeGroupInitiative has sent the summary of a group of two or more.
C27_Witness ==
  /\ ev.kind = "finalizeDone" /\ ev.via # "roll"
  /\ ev.frame.pc = "summary"
  /\ Len(ev.frame.updates) >= 2
  /\ ev.frame.mW = "ok" /\ ev.frame.gW = "ok"
\* The calls in flight that a handler of updateCombatant started.
HookFrames(tk) ==
  LET S == {f \in BagToSet(tk) : f.via = "hook"}
      count[T \in SUBSET S] ==
        IF T = {} THEN 0
        ELSE LET f == CHOOSE x \in T : TRUE
             IN  CopiesIn(f, tk) + count[T \ {f}]
  IN  count[S]
\* _mutex when the handler ran for the i-th notification of step e: held
\* before the step, or taken by the finalize of an earlier notification.
MutexAt(e, i) == mutex \/ \E j \in 1 .. (i - 1) : e.hooks[j].outcome = "run"

\* C28: the handler of a member-changed notification calls
\* finalizeGroupInitiative exactly when the change includes initiative, the
\* mutex and the bulk-roll flag are not held, the member is in a group and
\* the skip flag of that group is not set; a notification it drops starts
\* no call, then or later, and leaves the mutex as it is.
C28_HookCallsExactly ==
  [][/\ \A i \in DOMAIN ev'.hooks :
          LET h == ev'.hooks[i]
          IN  h.decision = "finalize" <=>
                /\ h.hasInit
                /\ ~MutexAt(ev', i)
                /\ ~bulkRollInProgress
                /\ groupId[h.m] # UNGROUPED
                /\ ~skipFinalize[groupId[h.m]]
     /\ HookFrames(tasks') - HookFrames(tasks) <=
          Cardinality({i \in HookCalls(ev') : ev'.hooks[i].outcome = "run"})
     /\ ev'.hooks # << >> /\ HookCalls(ev') = {} => mutex' = mutex]_vars
\* The bulk roll has written the rolled initiative of a grouped member and
\* the handler dropped the notification at the bulk-roll flag.
C28_Witness ==
  \E i \in DOMAIN ev.hooks :
    /\ ev.hooks[i].decision = "bulk"
    /\ ev.hooks[i].hasInit /\ ev.hooks[i].g # UNGROUPED
    /\ bulkRollInProgress
\* C29: the mutex is held exactly while a call of finalizeGroupInitiative
\* that took it is in flight; when such a call has returned, from its
\* summary or from its catch block, and when a call has returned at its
\* preconditions, the mutex is free, and a call is dropped at the mutex
\* only while another one is in flight.
C29_MutexReleased ==
  /\ mutex <=> \E f \in Busy : f.kind = "finalize" /\ ~f.bypass
  /\ ev.kind = "finalizeNoop" => ~mutex
  /\ ev.kind = "finalizeDone" /\ ev.frame.kind = "finalize" /\ ~ev.frame.bypass
       => ~mutex
  /\ ev.kind = "finalizeDropped" =>
       \E f \in Busy : f.kind = "finalize" /\ ~f.bypass
\* finalizeGroupInitiative has returned from its catch block, a write of
\* its ordering step having been rejected, and the mutex is free.
C29_Witness ==
  /\ ev.kind = "finalizeDone" /\ ev.frame.kind = "finalize" /\ ~ev.frame.bypass
  /\ ev.frame.failed /\ ev.frame.pc = "caught"
  /\ ~mutex
\* A call that has computed its plan and of whose two writes none has been
\* answered yet: the documents are those it read.
Planned(f) ==
  /\ f.pc = "persist" /\ f.mW = "pending" /\ f.gW = "pending"
  /\ f.g \in GroupIds /\ groups[f.g].exists
\* The entry of group h in the ranking of call f, the group of the call
\* entering with the aggregate the call has computed.
NewEntry(f, h) ==
  LET e == RankEntry(groupId, initiative, groups, h, f.g, f.avgInit)
  IN  IF h = f.g THEN [e EXCEPT !.has = TRUE, !.initiative = f.avgInit[1]]
      ELSE e
\* The groups ranked by call f: the stored groups with an aggregate.
Ranked(f) == {h \in GroupIds : groups[h].exists /\ NewEntry(f, h).has}

\* C30 (as claimed): the rank a call computes for its group is the number
\* of ranked groups that come before it in the order (aggregate descending,
\* sum of member initiatives descending, mean dexterity modifier descending,
\* id ascending), the group entering with its newly computed aggregate;
\* of two ranked groups exactly one comes before the other, and the group
\* of the call is ranked.
C30_RankByNewAggregate ==
  \A f \in Busy :
    Planned(f) =>
      /\ f.g \in Ranked(f)
      /\ \A a, b \in Ranked(f) :
           a # b => (RankBefore(NewEntry(f, a), NewEntry(f, b))
                       <=> ~RankBefore(NewEntry(f, b), NewEntry(f, a)))
      /\ f.rank = Cardinality({h \in Ranked(f) :
                                RankBefore(NewEntry(f, h), NewEntry(f, f.g))})
\* The values the members of group h hold once call f has written: those
\* of the plan for the group of the call, the stored ones for another.
ValuesAfter(f, h) ==
  IF h = f.g THEN {f.updates[i].initiative : i \in 1 .. Len(f.updates)}
  ELSE {initiative[m][1] : m \in {k \in Members : groupId[k] = h}}

\* C31 (as claimed): when a call orders its group at the aggregate of
\* another finalized group, the group that comes first in the chain
\* (sum of member initiatives, mean dexterity modifier, id) holds the
\* greater values: each of its members is above every member of the other.
C31_TieBreakFirstActsEarlier ==
  \A f \in Busy :
    Planned(f) =>
      \A h \in GroupIds \ {f.g} :
        groups[h].exists /\ finalized[h] /\ groups[h].initiative = f.avgInit =>
          LET hFirst == RankBefore(NewEntry(f, h), NewEntry(f, f.g))
              first == IF hFirst THEN h ELSE f.g
              later == IF hFirst THEN f.g ELSE h
          IN  \A a \in ValuesAfter(f, first), b \in ValuesAfter(f, later) : a > b
\* A wrapperCallback call that has set the bulk flag and has not reached
\* its finally block: the wrapped roll, the settle delay or the loop of
\* finalizations is running (the re-entry path calls the original only).
InBulk(f) ==
  f.kind = "bulk" /\ f.pc \notin {"timer", "originalOnly", "originalDone"}

\* C32 (as claimed): _bulkRollInProgress is set in every state in which
\* some wrapped bulk roll has started and has not finished its
\* finalizations, also when two bulk rolls overlap.
C32_BulkFlagHeld ==
  (\E f \in Busy : InBulk(f)) => bulkRollInProgress
\* The entry of the shaped list that became position i of the order.
OrderedEntry(f, i) ==
  CHOOSE e \in {f.list[k] : k \in 1 .. Len(f.list)} : e.id = f.updates[i].id

\* C33 (as claimed): in the order a call assigns to the members of its
\* group, of two members with equal initiative and equal dexterity the one
\* with the smaller id comes first, whatever the order of the collection.
C33_TiesById ==
  \A f \in Busy :
    \A i, j \in 1 .. Len(f.updates) :
      (/\ i < j
       /\ OrderedEntry(f, i).init = OrderedEntry(f, j).init
       /\ OrderedEntry(f, i).dex = OrderedEntry(f, j).dex)
      => f.updates[i].id < f.updates[j].id
\* The combatants a call has rolled for.
RolledFor(call) ==
  EntryCombatants(call.passed) \cup EntryCombatants(call.failed)

\* C34: a call for a group that is not Fearless goes on after every
\* applyMoraleEffect, whether the effect was applied or the request was
\* rejected, to the next living member or to the chat card; it reaches the
\* chat card only when it has rolled once for each member of the living set
\* taken at its start, and after the chat card, published or not, it
\* returns the results.
C34_RunsToCompletion ==
  [][LET call == morale.call
         after == morale'.call
     IN  call.discipline = "Standard" =>
           /\ call.pc = "effect" =>
                /\ after.pc \in {"roll", "chat"}
                /\ after.living = call.living
                /\ after.passed = call.passed /\ after.failed = call.failed
           /\ call.pc = "chat" =>
                /\ RolledFor(call) = {call.living[i] : i \in 1 .. Len(call.living)}
                /\ Len(call.passed) + Len(call.failed) = Len(call.living)
                /\ after.pc = "returned" /\ after.result = "results"
                /\ after.passed = call.passed /\ after.failed = call.failed
    ]_vars

\* A call has returned its results over two or more living members, one
\* of which failed and, though it has a token, does not carry the effect:
\* the request was rejected and the call went on.
C34_Witness ==
  /\ morale.call.pc = "returned" /\ morale.call.result = "results"
  /\ Len(morale.call.living) >= 2
  /\ \E i \in 1 .. Len(morale.call.failed) :
       /\ i < Len(morale.call.living)
       /\ morale.combatants[morale.call.failed[i].combatant].token
       /\ ~morale.combatants[morale.call.failed[i].combatant].effect
\* Every member of group g holds a finite initiative.
AllRolled(g) ==
  /\ groups[g].exists /\ MembersOf(groupId, g) # {}
  /\ \A m \in MembersOf(groupId, g) : initiative[m] # Null

\* C35 (as claimed): whenever no call is in flight, every group whose
\* members all hold a finite initiative has a stored aggregate, and the
\* ordering step that stored it covered the values its members hold now;
\* a notification dropped because another group's finalization held the
\* mutex does not leave its group unfinalized.
C35_Converges ==
  Quiet =>
    \A g \in GroupIds :
      AllRolled(g) => groups[g].initiative # Null /\ finalized[g]
\* C36: a step that is not an operation started from outside (an inline
\* edit or a direct call) starts no finalization, so the writes of an
\* ordering step, whose notifications reach the handler while the mutex is
\* held, start none; the number of calls in flight does not grow on such a
\* step, and whenever a call is in flight a state with none is reached.
C36_Settles ==
  /\ [][opsLeft' = opsLeft =>
          /\ BagCardinality(tasks') <= BagCardinality(tasks)
          /\ \A i \in 1 .. Len(ev'.hooks) : ev'.hooks[i].outcome # "run"]_vars
  /\ (~Quiet ~> Quiet)

\* The member write of a finalization that the handler started has raised
\* a notification that carries an initiative, and the handler returned at
\* the mutex.
C36_Witness ==
  \E f \in Busy :
    /\ f.via = "hook" /\ f.mW = "ok"
    /\ \E i \in 1 .. Len(ev.hooks), k \in 1 .. Len(f.updates) :
         /\ ev.hooks[i].hasInit /\ ev.hooks[i].decision = "mutex"
         /\ ev.hooks[i].m = f.updates[k].id
         /\ initiative[f.updates[k].id] = <<f.updates[k].initiative>>
\* C37: a step of a finalizeGroupInitiative call for group g, no other
\* call being in flight, leaves the group of every combatant, the
\* initiative and sort value of every combatant outside g, the entry of
\* every other group, the existence and the name of the entry of g, the
\* skip flags and the morale data (starting sizes among them) as they were.
C37_FinalizeFrame ==
  [][\A f \in Busy :
       (f.kind = "finalize" /\ BagCardinality(tasks) = 1 /\ opsLeft' = opsLeft)
       => /\ UNCHANGED <<groupId, actor, skipFinalize, morale>>
          /\ \A m \in Members :
               groupId[m] # f.g =>
                 initiative'[m] = initiative[m] /\ sort'[m] = sort[m]
          /\ \A h \in GroupIds \ {f.g} : groups'[h] = groups[h]
          /\ groups'[f.g].exists = groups[f.g].exists
          /\ groups'[f.g].name = groups[f.g].name]_vars

\* A finalization of a group has returned after writing its members and
\* its aggregate, while another group holds an aggregate and ordered
\* members.
C37_Witness ==
  /\ ev.kind = "finalizeDone" /\ ev.frame.kind = "finalize" /\ ~ev.frame.failed
  /\ groups[ev.g].initiative = ev.frame.avgInit /\ groups[ev.g].name # Null
  /\ \E h \in GroupIds \ {ev.g} :
       /\ groups[h].initiative # Null
       /\ \E m \in Members : groupId[m] = h /\ initiative[m] # Null
\* deleteGroup(g) has completed: the entry of g is gone and no deleteGroup
\* call for g is in flight.
Deleted(g) ==
  /\ ~groups[g].exists
  /\ \A c \in Busy : ~(c.kind = "delete" /\ c.g = g)

\* C38 (as claimed): once deleteGroup(g) has completed the groups flag
\* gets no entry for g again (no group is created in these behaviours): a
\* call that was ordering g when it was deleted does not write the
\* aggregate of g back.
C38_DeletedStaysDeleted ==
  [][\A g \in GroupIds : Deleted(g) => ~groups'[g].exists]_vars
\* The combatants a rollGroupAndApplyInitiative call has rolled so far.
RolledBy(f) == {f.rolled[i].id : i \in 1 .. Len(f.rolled)}
\* The call has set the skip flag and its ordering step has not written.
RollUnderWay(f) ==
  f.kind = "roll" /\ f.pc \in {"rolling", "writeRolls", "persist"}

\* C39 (as claimed): of two rollGroupAndApplyInitiative calls in flight no
\* combatant is rolled by both, and the skip flag of a group is set as long
\* as a call for it is between setting the flag and the end of its
\* ordering step.
C39_DoubleRoll ==
  /\ \A f \in Busy :
       f.kind = "roll" /\ f.rolled # << >> => CopiesIn(f, tasks) = 1
  /\ \A f1, f2 \in Busy :
       (f1.kind = "roll" /\ f2.kind = "roll" /\ f1 # f2)
       => RolledBy(f1) \cap RolledBy(f2) = {}
  /\ \A f \in Busy : RollUnderWay(f) => skipFinalize[f.g]

\* C40: a group is in _promptedGroups only if, since its entry was last
\* reset or cleared, an auto-prompt for it has been published or a morale
\* roll for it has completed, or the whisper of its prompt is still being
\* created: a prompt whose whisper was rejected leaves no mark.
C40_MarkedOnlyIfPublished ==
  \A g \in morale.promptedGroups :
    \/ g \in morale.published
    \/ morale.mark[g].what = "rolled"
    \/ \E c \in Busy : c.kind = "prompt" /\ c.g = g

====
